---- MODULE Spec2Model ----
(***************************************************************************)
(* A model of the runcore Node (svanichkin/runcore): the announce engine,  *)
(* the interface watchdog and reset controller, the send path, the contact *)
(* recall, the avatar store with its /avatar responder and fetcher, and    *)
(* the outgoing attachment store.  Each subsystem has its own              *)
(* specification over the shared variables; the variables a specification  *)
(* does not drive keep their initial value.                                *)
(*                                                                         *)
(* Time.  The code compares time.Now() with stored instants only through   *)
(* differences, so an instant is kept relative to now: a past instant as   *)
(* its age in seconds (capped where the code no longer tells ages apart),  *)
(* a deadline as the seconds left until it (PastDue once it has passed).   *)
(* Tick lets ClockStep seconds pass.                                       *)
(***************************************************************************)
EXTENDS Integers, Sequences, FiniteSets, TLC

(***************************************************************************)
(* Bounds of the model.                                                    *)
(***************************************************************************)
\* threads that call AnnounceDeliveryWithReason concurrently
NumCallers == 2
\* successful calls of Restart
MaxRestarts == 2
\* seconds that pass in one Tick
ClockStep == 2

(***************************************************************************)
(* Program constants (seconds).                                            *)
(***************************************************************************)
OfflineResetAfter == 6
ResetMinSpacing == 12
AnnounceDeadline == 20
AnnouncePreferWait == 6

(***************************************************************************)
(* The engine: threads, interfaces, reasons.                               *)
(***************************************************************************)
WD == "watchdog"
\* the goroutine of startPeriodicAnnounce
PA == "periodic"
Callers == {<<"ui", "ticker", "lifecycle", "ffi">>[i] : i \in 1..NumCallers}

\* Start's two destinations and one more for every Restart
MaxDests == 2 + MaxRestarts
RequestPaths == {"/avatar", "/attachment"}
Threads == {WD, PA} \cup Callers

\* the two sections of the embedded transport config, sorted by name
IfaceNames == <<"Default Interface", "TCP Client Interface">>
Ifaces == {IfaceNames[i] : i \in 1..Len(IfaceNames)}
IfaceType == [n \in Ifaces |->
                IF n = "TCP Client Interface" THEN "TCPClientInterface" ELSE "AutoInterface"]

\* the zero time.Time, a missing map entry, an unset deadline
NoTime == -1
\* a deadline that has passed
PastDue == -2

VARIABLES
    pc,                \* where each thread is
    announceInFlight,  \* Node.announceInFlight
    announceQueued,    \* Node.announceQueued
    reason,            \* the reason of the attempt a thread runs
    deadline,          \* the attempt's hard deadline
    preferDeadline,    \* the attempt's TCP preference deadline
    announceStopClosed,\* the stop channel Node.announceStop is closed
    announceStopOnce,  \* Node.announceStopOnce has run its function
    stopCloses,        \* close(n.announceStop) was executed 0 times, once, or 2: again
    networkResetMu,    \* the holder of Node.networkResetMu, or "free"
    resetNames,        \* names computed by a running reset procedure
    resetIdx,          \* next name to halt or resume
    ifaceEnabled,      \* interface_enabled of each section of the config
    ifaceOnline,       \* runtime status of each interface
    ifaceOfflineAt,    \* Node.ifaceOfflineAt
    lastIfaceReset,    \* Node.lastIfaceReset
    wdScan,            \* the watchdog's locals between its two critical sections
    wdResetLog,        \* the last "watchdog triggering interface reset" log line
    identityCache,     \* what rns.IdentityRecall knows of each peer
    lastSend,          \* the last SendHex call, with what it did
    routerOutbound,    \* messages handed to router.HandleOutbound
    routerDelivered,   \* packed messages handed to router.LXMDelivery
    contactPc,         \* where the thread in ContactInfoHex is
    contactCall,       \* the locals of the running ContactInfoHex call
    contactDone,       \* the last ContactInfoHex call that returned
    unixNow,           \* time.Now().Unix()
    avatarFiles,       \* avatar.bin, avatar.mime and the legacy avatar.png in opts.Dir
    avatarPNG,         \* Node.avatarPNG
    avatarHash,        \* Node.avatarHash
    avatarMTime,       \* Node.avatarMTime
    avatarMime,        \* Node.avatarMime
    avPc,              \* where the thread that calls the avatar API is
    avArgs,            \* the locals of a running SetAvatarImage
    avReturn,          \* what the last avatar API call returned
    avRequest,         \* the /avatar request of the peer on its way to this node
    avResponse,        \* this node's response on its way to the peer
    avResource,        \* the resource this node sends over the link
    fetchPc,           \* where the peer's fetchAvatarViaDestination is
    fetchLocals,       \* respHash and respMime of the running fetch
    fetchDone,         \* what the last fetch returned
    outFiles,          \* the files of attachments/out, by name
    lastStore,         \* the last StoreOutgoingAttachment call, with what it did
    inFiles,           \* the files of attachments/in, by directory
    fx,                \* the running fetch from a contact: its arguments and locals
    fxDone,            \* what the last fetch from a contact returned
    link,              \* the link of the fetch: its channels and what the peer answers
    cbBlocked,         \* the callback in which the transport's thread waits, or ""
    hasPath,           \* rns.TransportHasPath of the peer's destination
    profileDestIn,     \* Node.profileDestIn: a destination, or 0 for nil
    deliveryDestIn,    \* Node.deliveryDestIn: a destination, or 0 for nil
    destHandlers,      \* the request paths registered on each destination
    destsMade,         \* how many destinations were created; they are numbered from 1
    identity,          \* Node.identity: an identity, or 0 for nil
    router,            \* Node.router, by the delivery destination it registered; 0 for nil
    deliveryCallback,  \* the routers that have the node's delivery callback
    onInbound,         \* Node.onInbound is set
    lastInbound,       \* where the last message that a router delivered went
    cfgFile,           \* the file rns/config of opts.Dir, as configobj loads it
    cfgLast,           \* what touched the file last
    netIfaces,         \* what net.Interfaces returns
    setEnabledDone,    \* what the last SetInterfaceEnabled call for each name returned
    staleStamp,        \* an interface enabled since the last tick has an older offline timestamp
    announces,         \* Node.announces: the map from destination hash hex to entry
    annEntry,          \* the entry of the last recordAnnounce call
    snapshot           \* what the last announceSnapshot call returned

annVars == <<announceInFlight, announceQueued, reason, deadline, preferDeadline>>
stopVars == <<announceStopClosed, announceStopOnce, stopCloses>>
resetVars == <<networkResetMu, resetNames, resetIdx>>
wdVars == <<ifaceOfflineAt, lastIfaceReset, wdScan, wdResetLog>>
engineVars == <<pc, annVars, stopVars, resetVars, ifaceEnabled, ifaceOnline,
                wdVars>>

sendVars == <<lastSend, routerOutbound, routerDelivered>>
contactVars == <<contactPc, contactCall, contactDone>>
avatarVars == <<avatarFiles, avatarPNG, avatarHash, avatarMTime, avatarMime, avPc, avArgs,
                avReturn>>
fetchVars == <<avRequest, avResponse, avResource, fetchPc, fetchLocals, fetchDone>>
fxVars == <<inFiles, fx, fxDone, link, cbBlocked, hasPath>>
attachVars == <<outFiles, lastStore, fxVars>>
destVars == <<profileDestIn, deliveryDestIn, destHandlers, destsMade, identity, router,
              deliveryCallback, onInbound, lastInbound>>
cfgVars == <<cfgFile, cfgLast, netIfaces>>
regVars == <<announces, annEntry, snapshot>>
ctlVars == <<setEnabledDone, staleStamp, regVars>>
appVarsButCtl == <<identityCache, sendVars, contactVars, unixNow, avatarVars, fetchVars,
                   attachVars, destVars, cfgVars, regVars>>
appVars == <<identityCache, sendVars, contactVars, unixNow, avatarVars, fetchVars,
             attachVars, destVars, cfgVars, ctlVars>>

vars == <<engineVars, appVars>>

(***************************************************************************)
(* Helpers of the engine.                                                  *)
(***************************************************************************)
SeqRange(s) == {s[i] : i \in 1..Len(s)}

Max(S) == CHOOSE x \in S : \A y \in S : y <= x

\* a past instant, ClockStep seconds later
Older(age, cap) ==
    IF age = NoTime THEN NoTime
    ELSE IF age + ClockStep > cap THEN cap ELSE age + ClockStep

\* a deadline, ClockStep seconds later
Nearer(left) ==
    IF left \in {NoTime, PastDue} THEN left
    ELSE IF left - ClockStep < 0 THEN PastDue ELSE left - ClockStep

\* Node.enabledInterfaceConfigs: the enabled sections, sorted by name
enabledInterfaceConfigs == SelectSeq(IfaceNames, LAMBDA n : ifaceEnabled[n])

IsTCP(n) == IfaceType[n] = "TCPClientInterface"

\* Node.hasAnyOnlineInterface
hasAnyOnlineInterface == \E n \in Ifaces : ifaceOnline[n]

\* a readiness check that is content with any online interface, enabled or not
announceReady_AnyOnline(beforePrefer) == hasAnyOnlineInterface

\* Node.announceReady(preferDeadline): its first result; beforePrefer is
\* time.Now().Before(preferDeadline)
announceReady(beforePrefer) ==
    LET enabled == SeqRange(enabledInterfaceConfigs)
        online == {n \in enabled : ifaceOnline[n]}
        hasTCPEnabled == \E n \in enabled : IsTCP(n)
        hasTCPOnline == \E n \in online : IsTCP(n)
    IN  IF enabled = {} THEN hasAnyOnlineInterface
        ELSE IF online = {} THEN FALSE
        ELSE IF hasTCPEnabled /\ ~hasTCPOnline /\ beforePrefer THEN FALSE
        ELSE TRUE

\* an attempt is in flight from the CAS it won to the store that clears the flag
InFlightPCs == {"start", "r_lock", "r_halt", "r_sleep", "r_resume", "r_unlock",
                "poll", "stab", "deadline_chk", "emit", "clear"}
\* a plain store in place of the compare-and-swap
CASInFlight_PlainStore == TRUE

\* atomic.CompareAndSwapInt32(&n.announceInFlight, 0, 1) succeeds
CASInFlight == announceInFlight = 0

\* a reset that does not wait for the mutex
MuFree_NoWait == TRUE

\* networkResetMu.Lock() can return
MuFree == networkResetMu = "free"

(***************************************************************************)
(* The environment: time passes, interfaces come and go.                   *)
(***************************************************************************)
Tick ==
    /\ deadline' = [p \in Callers |-> Nearer(deadline[p])]
    /\ preferDeadline' = [p \in Callers |-> Nearer(preferDeadline[p])]
    /\ ifaceOfflineAt' = [n \in Ifaces |-> Older(ifaceOfflineAt[n], OfflineResetAfter)]
    /\ lastIfaceReset' = Older(lastIfaceReset, ResetMinSpacing)
    /\ wdScan' = [wdScan EXCEPT !.lastReset = Older(@, ResetMinSpacing)]
    /\ wdResetLog' = [wdResetLog EXCEPT !.age = Older(@, ResetMinSpacing)]
    /\ UNCHANGED <<pc, announceInFlight, announceQueued, reason, stopVars,
                   resetVars, ifaceEnabled, ifaceOnline>>
    /\ UNCHANGED appVars

SetOnline(n, b) ==
    /\ ifaceOnline[n] # b
    /\ ifaceOnline' = [ifaceOnline EXCEPT ![n] = b]
    /\ UNCHANGED <<pc, annVars, stopVars, resetVars, ifaceEnabled, wdVars>>
    /\ UNCHANGED appVars

\* the transport config is edited: enabledInterfaceConfigs reads the file at each call
SetEnabled(n, b) ==
    /\ ifaceEnabled[n] # b
    /\ ifaceEnabled' = [ifaceEnabled EXCEPT ![n] = b]
    /\ staleStamp' = [staleStamp EXCEPT ![n] = b /\ ifaceOfflineAt[n] # NoTime]
    /\ UNCHANGED <<pc, annVars, stopVars, resetVars, ifaceOnline, wdVars>>
    /\ UNCHANGED <<appVarsButCtl, setEnabledDone>>

\* Node.SetInterfaceEnabled(name, enabled): the config is saved with the new value of
\* interface_enabled, then the interface is halted or reloaded; the call returns the
\* error of the save, or that of the halt or reload
SetInterfaceEnabled(n, enabled, outcome) ==
    /\ IF outcome = "save_failed"
         THEN UNCHANGED <<ifaceEnabled, ifaceOnline, staleStamp>>
         ELSE /\ ifaceEnabled' = [ifaceEnabled EXCEPT ![n] = enabled]
              /\ staleStamp' = IF enabled = ifaceEnabled[n] THEN staleStamp
                               ELSE [staleStamp EXCEPT ![n] =
                                        enabled /\ ifaceOfflineAt[n] # NoTime]
              /\ ifaceOnline' = IF outcome = "ok" THEN [ifaceOnline EXCEPT ![n] = FALSE]
                                ELSE ifaceOnline
    /\ setEnabledDone' = [setEnabledDone EXCEPT ![n] =
            IF outcome # "ok" THEN "error" ELSE IF enabled THEN "enabled" ELSE "disabled"]
    /\ UNCHANGED <<pc, annVars, stopVars, resetVars, wdVars>>
    /\ UNCHANGED appVarsButCtl

(***************************************************************************)
(* Node.AnnounceDeliveryWithReason                                         *)
(***************************************************************************)
\* lines 536-548 and 558: the entry, up to the CAS
AnnounceEnter(p, r) ==
    /\ pc[p] = "idle"
    /\ IF CASInFlight
         THEN /\ announceInFlight' = 1
              /\ pc' = [pc EXCEPT ![p] = "start"]
              /\ reason' = [reason EXCEPT ![p] = r]
         ELSE /\ pc' = [pc EXCEPT ![p] = "storeq"]
              /\ UNCHANGED <<announceInFlight, reason>>
    /\ UNCHANGED <<announceQueued, deadline, preferDeadline, stopVars,
                   resetVars, ifaceEnabled, ifaceOnline, wdVars>>
    /\ UNCHANGED appVars

\* line 546: the CAS lost
StoreQueued(p) ==
    /\ pc[p] = "storeq"
    /\ announceQueued' = 1
    /\ pc' = [pc EXCEPT ![p] = "idle"]
    /\ UNCHANGED <<announceInFlight, reason, deadline, preferDeadline,
                   stopVars, resetVars, ifaceEnabled, ifaceOnline, wdVars>>
    /\ UNCHANGED appVars

\* a goroutine that polls at once, whatever the reason
AttemptStart_NoReset(p) ==
    /\ pc[p] = "start"
    /\ pc' = [pc EXCEPT ![p] = "poll"]
    /\ deadline' = [deadline EXCEPT ![p] = AnnounceDeadline]
    /\ preferDeadline' = [preferDeadline EXCEPT ![p] = AnnouncePreferWait]
    /\ UNCHANGED <<announceInFlight, announceQueued, reason, stopVars,
                   resetVars, ifaceEnabled, ifaceOnline, wdVars>>
    /\ UNCHANGED appVars

\* lines 562-567: the goroutine starts; a "resume" attempt resets the interfaces first
AttemptStart(p) ==
    /\ pc[p] = "start"
    /\ IF reason[p] = "resume"
         THEN /\ pc' = [pc EXCEPT ![p] = "r_lock"]
              /\ UNCHANGED <<deadline, preferDeadline>>
         ELSE /\ pc' = [pc EXCEPT ![p] = "poll"]
              /\ deadline' = [deadline EXCEPT ![p] = AnnounceDeadline]
              /\ preferDeadline' = [preferDeadline EXCEPT ![p] = AnnouncePreferWait]
    /\ UNCHANGED <<announceInFlight, announceQueued, reason, stopVars,
                   resetVars, ifaceEnabled, ifaceOnline, wdVars>>
    /\ UNCHANGED appVars

\* a poll that does not look at the stop channel
Poll_IgnoresStop(p) ==
    /\ pc[p] = "poll"
    /\ pc' = [pc EXCEPT ![p] =
            IF announceReady(preferDeadline[p] # PastDue /\ preferDeadline[p] > 0)
              THEN "stab" ELSE "deadline_chk"]
    /\ UNCHANGED <<annVars, stopVars, resetVars, ifaceEnabled, ifaceOnline,
                   wdVars>>
    /\ UNCHANGED appVars

\* lines 569-579: one poll; the stop channel is looked at first
Poll(p) ==
    /\ pc[p] = "poll"
    /\ IF announceStopClosed
         THEN /\ announceInFlight' = 0
              /\ pc' = [pc EXCEPT ![p] = "idle"]
              /\ reason' = [reason EXCEPT ![p] = "none"]
              /\ deadline' = [deadline EXCEPT ![p] = NoTime]
              /\ preferDeadline' = [preferDeadline EXCEPT ![p] = NoTime]
         ELSE /\ pc' = [pc EXCEPT ![p] =
                    IF announceReady(preferDeadline[p] # PastDue /\ preferDeadline[p] > 0)
                      THEN "stab" ELSE "deadline_chk"]
              /\ UNCHANGED <<announceInFlight, reason, deadline, preferDeadline>>
    /\ UNCHANGED <<announceQueued, stopVars, resetVars, ifaceEnabled,
                   ifaceOnline, wdVars>>
    /\ UNCHANGED appVars

\* lines 581-585: after the 1 s sleep, the re-check with preferDeadline = now
Stabilise(p) ==
    /\ pc[p] = "stab"
    /\ pc' = [pc EXCEPT ![p] = IF announceReady(FALSE) THEN "emit" ELSE "deadline_chk"]
    /\ UNCHANGED <<annVars, stopVars, resetVars, ifaceEnabled, ifaceOnline,
                   wdVars>>
    /\ UNCHANGED appVars

\* a loop without the hard deadline
DeadlineCheck_NeverAborts(p) ==
    /\ pc[p] = "deadline_chk"
    /\ pc' = [pc EXCEPT ![p] = "poll"]
    /\ UNCHANGED <<annVars, stopVars, resetVars, ifaceEnabled, ifaceOnline,
                   wdVars>>
    /\ UNCHANGED appVars

\* an abort that takes the deferred request with it
DeadlineCheck_ClearsQueued(p) ==
    /\ pc[p] = "deadline_chk"
    /\ IF deadline[p] = PastDue
         THEN /\ announceInFlight' = 0
              /\ announceQueued' = 0
              /\ pc' = [pc EXCEPT ![p] = "idle"]
              /\ reason' = [reason EXCEPT ![p] = "none"]
              /\ deadline' = [deadline EXCEPT ![p] = NoTime]
              /\ preferDeadline' = [preferDeadline EXCEPT ![p] = NoTime]
         ELSE /\ pc' = [pc EXCEPT ![p] = "poll"]
              /\ UNCHANGED <<announceInFlight, announceQueued, reason, deadline,
                             preferDeadline>>
    /\ UNCHANGED <<stopVars, resetVars, ifaceEnabled, ifaceOnline, wdVars>>
    /\ UNCHANGED appVars

\* lines 587-602: the hard deadline, or the 500 ms sleep and the next poll
DeadlineCheck(p) ==
    /\ pc[p] = "deadline_chk"
    /\ IF deadline[p] = PastDue
         THEN /\ announceInFlight' = 0
              /\ pc' = [pc EXCEPT ![p] = "idle"]
              /\ reason' = [reason EXCEPT ![p] = "none"]
              /\ deadline' = [deadline EXCEPT ![p] = NoTime]
              /\ preferDeadline' = [preferDeadline EXCEPT ![p] = NoTime]
         ELSE /\ pc' = [pc EXCEPT ![p] = "poll"]
              /\ UNCHANGED <<announceInFlight, reason, deadline, preferDeadline>>
    /\ UNCHANGED <<announceQueued, stopVars, resetVars, ifaceEnabled,
                   ifaceOnline, wdVars>>
    /\ UNCHANGED appVars

\* lines 605-625: the announce is built and handed to the transport
Emit(p) ==
    /\ pc[p] = "emit"
    /\ pc' = [pc EXCEPT ![p] = "clear"]
    /\ UNCHANGED <<annVars, stopVars, resetVars, ifaceEnabled, ifaceOnline,
                   wdVars>>
    /\ UNCHANGED appVars

\* line 627
ClearInFlight(p) ==
    /\ pc[p] = "clear"
    /\ announceInFlight' = 0
    /\ pc' = [pc EXCEPT ![p] = "swapq"]
    /\ deadline' = [deadline EXCEPT ![p] = NoTime]
    /\ preferDeadline' = [preferDeadline EXCEPT ![p] = NoTime]
    /\ UNCHANGED <<announceQueued, reason, stopVars, resetVars, ifaceEnabled,
                   ifaceOnline, wdVars>>
    /\ UNCHANGED appVars

\* a completion that follows up whether or not a request was deferred
SwapQueued_AlwaysFollows(p) ==
    /\ pc[p] = "swapq"
    /\ announceQueued' = 0
    /\ pc' = [pc EXCEPT ![p] = "fcas"]
    /\ reason' = [reason EXCEPT ![p] = "none"]
    /\ UNCHANGED <<announceInFlight, deadline, preferDeadline, stopVars,
                   resetVars, ifaceEnabled, ifaceOnline, wdVars>>
    /\ UNCHANGED appVars

\* line 628: atomic.SwapInt32(&n.announceQueued, 0)
SwapQueued(p) ==
    /\ pc[p] = "swapq"
    /\ announceQueued' = 0
    /\ pc' = [pc EXCEPT ![p] = IF announceQueued = 1 THEN "fcas" ELSE "idle"]
    /\ reason' = [reason EXCEPT ![p] = "none"]
    /\ UNCHANGED <<announceInFlight, deadline, preferDeadline, stopVars,
                   resetVars, ifaceEnabled, ifaceOnline, wdVars>>
    /\ UNCHANGED appVars

\* line 629: the follow-up call AnnounceDeliveryWithReason("queued"), up to its CAS;
\* the goroutine it starts takes the place of the one that ends
FollowUpEnter(p) ==
    /\ pc[p] = "fcas"
    /\ IF CASInFlight
         THEN /\ announceInFlight' = 1
              /\ pc' = [pc EXCEPT ![p] = "start"]
              /\ reason' = [reason EXCEPT ![p] = "queued"]
         ELSE /\ pc' = [pc EXCEPT ![p] = "storeq"]
              /\ UNCHANGED <<announceInFlight, reason>>
    /\ UNCHANGED <<announceQueued, deadline, preferDeadline, stopVars,
                   resetVars, ifaceEnabled, ifaceOnline, wdVars>>
    /\ UNCHANGED appVars

(***************************************************************************)
(* Node.resetEnabledInterfaces, run by thread t                            *)
(***************************************************************************)
\* lines 679-701: the mutex is taken, the names of the enabled interfaces computed
ResetLock(t) ==
    /\ pc[t] = "r_lock"
    /\ MuFree
    /\ networkResetMu' = t
    /\ LET names == enabledInterfaceConfigs
       IN  IF names = <<>>
             THEN /\ pc' = [pc EXCEPT ![t] = "r_unlock"]
                  /\ UNCHANGED <<resetNames, resetIdx>>
             ELSE /\ pc' = [pc EXCEPT ![t] = "r_halt"]
                  /\ resetNames' = [resetNames EXCEPT ![t] = names]
                  /\ resetIdx' = [resetIdx EXCEPT ![t] = 1]
    /\ UNCHANGED <<annVars, stopVars, ifaceEnabled, ifaceOnline, wdVars>>
    /\ UNCHANGED appVars

\* a halt loop that gives up at the first failure
ResetHalt_StopsAtFailure(t, ok) ==
    /\ pc[t] = "r_halt"
    /\ LET n == resetNames[t][resetIdx[t]]
       IN  ifaceOnline' = IF ok THEN [ifaceOnline EXCEPT ![n] = FALSE] ELSE ifaceOnline
    /\ IF ok /\ resetIdx[t] < Len(resetNames[t])
         THEN /\ resetIdx' = [resetIdx EXCEPT ![t] = @ + 1]
              /\ pc' = pc
         ELSE /\ resetIdx' = [resetIdx EXCEPT ![t] = 1]
              /\ pc' = [pc EXCEPT ![t] = "r_sleep"]
    /\ UNCHANGED <<annVars, stopVars, networkResetMu, resetNames,
                   ifaceEnabled, wdVars>>
    /\ UNCHANGED appVars

\* lines 704-710: one HaltInterface; a failure is logged and the loop goes on
ResetHalt(t, ok) ==
    /\ pc[t] = "r_halt"
    /\ LET n == resetNames[t][resetIdx[t]]
       IN  ifaceOnline' = IF ok THEN [ifaceOnline EXCEPT ![n] = FALSE] ELSE ifaceOnline
    /\ IF resetIdx[t] < Len(resetNames[t])
         THEN /\ resetIdx' = [resetIdx EXCEPT ![t] = @ + 1]
              /\ pc' = pc
         ELSE /\ resetIdx' = [resetIdx EXCEPT ![t] = 1]
              /\ pc' = [pc EXCEPT ![t] = "r_sleep"]
    /\ UNCHANGED <<annVars, stopVars, networkResetMu, resetNames,
                   ifaceEnabled, wdVars>>
    /\ UNCHANGED appVars

\* line 713: the 400 ms grace period is over
ResetSleep(t) ==
    /\ pc[t] = "r_sleep"
    /\ pc' = [pc EXCEPT ![t] = "r_resume"]
    /\ UNCHANGED <<annVars, stopVars, resetVars, ifaceEnabled, ifaceOnline,
                   wdVars>>
    /\ UNCHANGED appVars

\* lines 716-722: one ResumeInterface; the interface comes online later, if at all
ResetResume(t) ==
    /\ pc[t] = "r_resume"
    /\ IF resetIdx[t] < Len(resetNames[t])
         THEN /\ resetIdx' = [resetIdx EXCEPT ![t] = @ + 1]
              /\ pc' = pc
         ELSE /\ resetIdx' = [resetIdx EXCEPT ![t] = 0]
              /\ pc' = [pc EXCEPT ![t] = "r_unlock"]
    /\ UNCHANGED <<annVars, stopVars, networkResetMu, resetNames,
                   ifaceEnabled, ifaceOnline, wdVars>>
    /\ UNCHANGED appVars

\* line 680 (deferred) and the return to the caller: the watchdog waits for its next
\* tick, an announce goroutine sets its deadlines (lines 566-567) and polls
ResetUnlock(t) ==
    /\ pc[t] = "r_unlock"
    /\ networkResetMu' = "free"
    /\ resetNames' = [resetNames EXCEPT ![t] = <<>>]
    /\ pc' = [pc EXCEPT ![t] = IF t = WD THEN "wd_wait" ELSE "poll"]
    /\ IF t = WD
         THEN UNCHANGED <<deadline, preferDeadline>>
         ELSE /\ deadline' = [deadline EXCEPT ![t] = AnnounceDeadline]
              /\ preferDeadline' = [preferDeadline EXCEPT ![t] = AnnouncePreferWait]
    /\ UNCHANGED <<announceInFlight, announceQueued, reason, stopVars,
                   resetIdx, ifaceEnabled, ifaceOnline, wdVars>>
    /\ UNCHANGED appVars

(***************************************************************************)
(* The watchdog: Node.startInterfaceWatchdog, maybeResetInterfacesOnStall  *)
(***************************************************************************)
\* a pass that stamps an offline interface anew at every tick
ScanOfflineAt_Restamps ==
    [n \in Ifaces |->
        IF ~ifaceEnabled[n] THEN ifaceOfflineAt[n]
        ELSE IF ifaceOnline[n] THEN NoTime
        ELSE 0]

\* lines 482-507: the offline timestamps after one pass over the enabled interfaces
ScanOfflineAt ==
    [n \in Ifaces |->
        IF ~ifaceEnabled[n] THEN ifaceOfflineAt[n]
        ELSE IF ifaceOnline[n] THEN NoTime
        ELSE IF ifaceOfflineAt[n] = NoTime THEN 0
        ELSE ifaceOfflineAt[n]]

\* lines 464-509: a tick; the first critical section
WatchdogScan ==
    /\ pc[WD] = "wd_wait"
    /\ IF enabledInterfaceConfigs = <<>>
         THEN UNCHANGED <<pc, ifaceOfflineAt, wdScan, staleStamp>>
         ELSE LET enabled == SeqRange(enabledInterfaceConfigs)
                  after == ScanOfflineAt
              IN  /\ ifaceOfflineAt' = after
                  /\ staleStamp' = [n \in Ifaces |-> n \notin enabled /\ staleStamp[n]]
                  /\ wdScan' = [anyOnline |-> \E n \in enabled : ifaceOnline[n],
                                longestOffline |->
                                    Max({0} \cup {after[n] :
                                            n \in {m \in enabled : ~ifaceOnline[m]}}),
                                lastReset |-> lastIfaceReset]
                  /\ pc' = [pc EXCEPT ![WD] = "wd_decide"]
    /\ UNCHANGED <<annVars, stopVars, resetVars, ifaceEnabled, ifaceOnline,
                   lastIfaceReset, wdResetLog>>
    /\ UNCHANGED <<appVarsButCtl, setEnabledDone>>

\* a watchdog that does not look at the last reset
WatchdogSkips_NoSpacing ==
    \/ wdScan.anyOnline
    \/ wdScan.longestOffline < OfflineResetAfter

\* lines 512-520: the three conditions under which the tick ends without a reset
WatchdogSkips ==
    \/ wdScan.anyOnline
    \/ wdScan.longestOffline < OfflineResetAfter
    \/ (wdScan.lastReset # NoTime /\ wdScan.lastReset < ResetMinSpacing)

\* lines 512-526: the decision; the second critical section sets lastIfaceReset
WatchdogDecide ==
    /\ pc[WD] = "wd_decide"
    /\ wdScan' = [anyOnline |-> FALSE, longestOffline |-> 0, lastReset |-> NoTime]
    /\ IF WatchdogSkips
         THEN /\ pc' = [pc EXCEPT ![WD] = "wd_wait"]
              /\ UNCHANGED <<lastIfaceReset, wdResetLog>>
         ELSE /\ lastIfaceReset' = 0
              /\ wdResetLog' = [age |-> 0, sincePrev |-> wdResetLog.age]
              /\ pc' = [pc EXCEPT ![WD] = "r_lock"]
    /\ UNCHANGED <<annVars, stopVars, resetVars, ifaceEnabled, ifaceOnline,
                   ifaceOfflineAt>>
    /\ UNCHANGED appVars

\* lines 457-458: the stop channel is closed and the select takes that case
WatchdogExit ==
    /\ pc[WD] = "wd_wait"
    /\ announceStopClosed
    /\ pc' = [pc EXCEPT ![WD] = "wd_exit"]
    /\ UNCHANGED <<annVars, stopVars, resetVars, ifaceEnabled, ifaceOnline,
                   wdVars>>
    /\ UNCHANGED appVars

\* a Do that runs its function at every call
OnceRuns_EveryCall == TRUE

\* sync.Once.Do runs its function: no call has run it yet
OnceRuns == ~announceStopOnce

\* lines 899-900: the ticker fires and the loop calls AnnounceDeliveryWithReason, which
\* returns after its CAS: won, the attempt runs in a goroutine of its own (p, which is
\* free); lost, the store of line 546 is the loop's next step
PeriodicFire(p) ==
    /\ pc[PA] = "pa_wait"
    /\ IF CASInFlight
         THEN /\ pc[p] = "idle"
              /\ announceInFlight' = 1
              /\ pc' = [pc EXCEPT ![p] = "start"]
              /\ reason' = [reason EXCEPT ![p] = "periodic"]
         ELSE /\ pc' = [pc EXCEPT ![PA] = "pa_storeq"]
              /\ UNCHANGED <<announceInFlight, reason>>
    /\ UNCHANGED <<announceQueued, deadline, preferDeadline, stopVars,
                   resetVars, ifaceEnabled, ifaceOnline, wdVars>>
    /\ UNCHANGED appVars

\* line 546 in the loop's call, and the return to the select
PeriodicStoreQueued ==
    /\ pc[PA] = "pa_storeq"
    /\ announceQueued' = 1
    /\ pc' = [pc EXCEPT ![PA] = "pa_wait"]
    /\ UNCHANGED <<announceInFlight, reason, deadline, preferDeadline,
                   stopVars, resetVars, ifaceEnabled, ifaceOnline, wdVars>>
    /\ UNCHANGED appVars

\* lines 901-902: the stop channel is closed and the select takes that case
PeriodicExit ==
    /\ pc[PA] = "pa_wait"
    /\ announceStopClosed
    /\ pc' = [pc EXCEPT ![PA] = "pa_exit"]
    /\ UNCHANGED <<annVars, stopVars, resetVars, ifaceEnabled, ifaceOnline,
                   wdVars>>
    /\ UNCHANGED appVars

\* Node.Close, lines 270-272, by any thread: Once.Do holds its mutex while the function
\* runs, so concurrent calls run one after the other; a later call changes nothing
Close ==
    /\ IF OnceRuns
         THEN /\ announceStopOnce' = TRUE
              /\ announceStopClosed' = TRUE
              /\ stopCloses' = IF announceStopClosed THEN 2 ELSE 1
         ELSE UNCHANGED stopVars
    /\ UNCHANGED <<pc, annVars, resetVars, ifaceEnabled, ifaceOnline, wdVars>>
    /\ UNCHANGED appVars

(***************************************************************************)
(* Bytes, hex and text.  A byte string is a sequence of 0..255, a text a    *)
(* sequence of one-character strings.                                      *)
(***************************************************************************)
\* lxmf.DestinationLength, the length of a destination hash
DestinationLength == 16

HexLower == <<"0", "1", "2", "3", "4", "5", "6", "7", "8", "9", "a", "b", "c", "d", "e", "f">>
HexUpper == <<"0", "1", "2", "3", "4", "5", "6", "7", "8", "9", "A", "B", "C", "D", "E", "F">>

\* hex.EncodeToString
EncodeToString(b) ==
    [i \in 1..(2 * Len(b)) |->
        IF i % 2 = 1 THEN HexLower[(b[(i + 1) \div 2] \div 16) + 1]
                     ELSE HexLower[(b[i \div 2] % 16) + 1]]

IsHexChar(c) == \E i \in 1..16 : c = HexLower[i] \/ c = HexUpper[i]
fromHexChar(c) == (CHOOSE i \in 1..16 : c = HexLower[i] \/ c = HexUpper[i]) - 1

\* hex.DecodeString: the bytes, or an error on an odd length or a non-hex character
DecodeString(s) ==
    IF Len(s) % 2 = 1 \/ \E i \in 1..Len(s) : ~IsHexChar(s[i])
    THEN [ok |-> FALSE, bytes |-> <<>>]
    ELSE [ok |-> TRUE,
          bytes |-> [i \in 1..(Len(s) \div 2) |->
                        16 * fromHexChar(s[2 * i - 1]) + fromHexChar(s[2 * i])]]

\* strings.ToUpper and strings.ToLower on the letters of a hex text
UpperChar(c) == IF \E i \in 11..16 : c = HexLower[i]
                THEN HexUpper[CHOOSE i \in 11..16 : c = HexLower[i]] ELSE c
LowerChar(c) == IF \E i \in 11..16 : c = HexUpper[i]
                THEN HexLower[CHOOSE i \in 11..16 : c = HexUpper[i]] ELSE c
ToUpper(s) == [i \in 1..Len(s) |-> UpperChar(s[i])]
ToLower(s) == [i \in 1..Len(s) |-> LowerChar(s[i])]

\* strings.TrimSpace
IsSpace(c) == c \in {" ", "\t", "\n", "\r"}
RECURSIVE TrimLeft(_)
TrimLeft(s) == IF s # <<>> /\ IsSpace(Head(s)) THEN TrimLeft(Tail(s)) ELSE s
RECURSIVE TrimRight(_)
TrimRight(s) == IF s # <<>> /\ IsSpace(s[Len(s)])
                THEN TrimRight(SubSeq(s, 1, Len(s) - 1)) ELSE s
TrimSpace(s) == TrimRight(TrimLeft(s))

(***************************************************************************)
(* Announce app data: msgpack([display_name, stamp_cost, avatar]).  A      *)
(* packed value keeps its items with their msgpack types; Unpackb fails on *)
(* bytes that are no msgpack.                                              *)
(***************************************************************************)
Val(t, b, n) == [t |-> t, b |-> b, n |-> n]
NilVal == Val("nil", <<>>, 0)
AvatarKeys == {"h", "t", "s", "u"}
NoMap == [k \in AvatarKeys |-> Val("absent", <<>>, 0)]
Item(v, m) == [t |-> v.t, b |-> v.b, n |-> v.n, m |-> m]
Packb(items) == [kind |-> "list", items |-> items]
MimePNG == <<"i", "m", "a", "g", "e", "/", "p", "n", "g">>
PeerName == <<"b", "o", "b">>
PeerFingerprint == [i \in 1..16 |-> 200 + i]

\* app data a peer may announce: a name only, a name with an empty avatar map, a name
\* with avatar metadata
NameOnlyAppData ==
    Packb(<<Item(Val("bytes", PeerName, 0), NoMap), Item(NilVal, NoMap)>>)
EmptyMapAppData ==
    Packb(<<Item(Val("str", PeerName, 0), NoMap), Item(NilVal, NoMap),
            Item(Val("map", <<>>, 0), NoMap)>>)
AvatarAppData ==
    Packb(<<Item(Val("bytes", PeerName, 0), NoMap), Item(NilVal, NoMap),
            Item(Val("map", <<>>, 0),
                 [k \in AvatarKeys |->
                     CASE k = "h" -> Val("bytes", PeerFingerprint, 0)
                       [] k = "t" -> Val("str", MimePNG, 0)
                       [] k = "s" -> Val("int", <<>>, 4)
                       [] k = "u" -> Val("int64", <<>>, 1)])>>)
AppDataInputs ==
    { [kind |-> "empty", items |-> <<>>], [kind |-> "garbage", items |-> <<>>],
      NameOnlyAppData, EmptyMapAppData, AvatarAppData }

(***************************************************************************)
(* Files, SHA-256 and mime detection.                                      *)
(***************************************************************************)
\* a file: whether it exists, its bytes, its modification time
NoFile == [exists |-> FALSE, data |-> <<>>, mtime |-> 0]
FileOf(data, mtime) == [exists |-> TRUE, data |-> data, mtime |-> mtime]

\* the outcomes of os.WriteFile: written, not opened, or created and truncated with a
\* write that failed part-way
WriteOutcomes == {"ok", "open failed", "write failed", "cut short"}

\* the file after os.WriteFile(path, data) with this outcome
WriteFile(file, data, outcome) ==
    CASE outcome = "ok" -> FileOf(data, unixNow)
      [] outcome = "open failed" -> file
      [] outcome = "write failed" -> FileOf(<<>>, unixNow)
      [] outcome = "cut short" -> FileOf(SubSeq(data, 1, Len(data) - 1), unixNow)

\* the same for a sidecar text file, whose modification time nothing reads
WriteText(file, data, outcome) == [WriteFile(file, data, outcome) EXCEPT !.mtime = 0]

\* the size of a SHA-256 digest and of the fingerprint cut from it
Sha256Size == 32
FingerprintLen == 16

\* sha256.Sum256, stood in for by a digest of the same size that tells apart all byte
\* strings the model handles
RECURSIVE Absorb(_, _, _, _)
Absorb(data, k, mul, acc) ==
    IF k > Len(data) THEN acc
    ELSE Absorb(data, k + 1, mul, (acc * mul + data[k] + k) % 256)
Sum256(data) ==
    [i \in 1..Sha256Size |-> Absorb(data, 1, 29 + 2 * i, (i * 7 + Len(data) + 1) % 256)]

\* the whole digest kept as the fingerprint
SumPrefix_Whole(sum) == sum

\* sum[:16]
SumPrefix(sum) == SubSeq(sum, 1, FingerprintLen)

MimeJPEG == <<"i", "m", "a", "g", "e", "/", "j", "p", "e", "g">>
MimeHEIC == <<"i", "m", "a", "g", "e", "/", "h", "e", "i", "c">>
MagicPNG == <<137, 80, 78, 71, 13, 10, 26, 10>>
\* "heic", "heix", "hevc", "hevx", "mif1", "msf1"
HeicBrands == { <<104, 101, 105, 99>>, <<104, 101, 105, 120>>, <<104, 101, 118, 99>>,
                <<104, 101, 118, 120>>, <<109, 105, 102, 49>>, <<109, 115, 102, 49>> }

detectAvatarMime(data) ==
    IF Len(data) >= 8 /\ SubSeq(data, 1, 8) = MagicPNG THEN MimePNG
    ELSE IF Len(data) >= 3 /\ data[1] = 255 /\ data[2] = 216 /\ data[3] = 255 THEN MimeJPEG
    ELSE IF Len(data) >= 12 /\ SubSeq(data, 5, 8) = <<102, 116, 121, 112>>
                            /\ SubSeq(data, 9, 12) \in HeicBrands THEN MimeHEIC
    ELSE <<>>

\* images a caller may set: two JPEGs, a PNG, and bytes of no known type
ImgA == <<255, 216, 255, 1>>
ImgB == <<255, 216, 255, 2>>
Junk == <<7, 7>>

(***************************************************************************)
(* Destinations and the identity cache of the transport.                   *)
(***************************************************************************)
\* n.deliveryDestIn.Hash(), and the delivery hashes of a peer that announces and of one
\* that never does
SelfHash == [i \in 1..DestinationLength |-> 170 + i]
PeerHash == [i \in 1..DestinationLength |-> 16 + i]
Hashes == {SelfHash, PeerHash, [i \in 1..DestinationLength |-> 64 + i]}

\* a destination hash text as a caller may pass it
DestHexInputs ==
    { EncodeToString(SelfHash),
      ToUpper(EncodeToString(SelfHash)),
      EncodeToString(PeerHash),
      EncodeToString([i \in 1..DestinationLength |-> 64 + i]),
      SubSeq(EncodeToString(SelfHash), 1, 2 * DestinationLength - 2),
      SubSeq(EncodeToString(PeerHash), 1, 2 * DestinationLength - 1),
      <<"z">> \o SubSeq(EncodeToString(SelfHash), 2, 2 * DestinationLength) }

\* hex.DecodeString of each of these texts, computed once
DestHexDecoded == [s \in DestHexInputs \cup {<<>>} |-> DecodeString(s)]
DecodeDestHex(s) == DestHexDecoded[s]

\* rns.IdentityRecall finds nothing
NoIdentity == [known |-> FALSE, appData |-> [kind |-> "empty", items |-> <<>>]]

\* rns.IdentityRecall(destHash): what the transport has cached for the hash
IdentityRecall(destHash) ==
    IF destHash \in Hashes THEN identityCache[destHash] ELSE NoIdentity

\* no SendHex call has been made
NoSend == [called |-> FALSE, destHex |-> <<>>, recalled |-> FALSE, anyOnline |-> FALSE,
           localDelivery |-> FALSE, outbound |-> FALSE, err |-> ""]

\* no ContactInfoHex call is running, or none has returned
NoCall == [called |-> FALSE, destHex |-> <<>>, timeout |-> 0, left |-> 0, recalls |-> 0,
           pathRequests |-> 0]

\* the application side of a node that has just started
InitApp ==
    /\ identityCache = [h \in Hashes |-> NoIdentity]
    /\ lastSend = NoSend
    /\ routerOutbound = <<>>
    /\ routerDelivered = <<>>
    /\ contactPc = "idle"
    /\ contactCall = NoCall
    /\ contactDone = [call |-> NoCall, err |-> "", info |-> <<>>]
    /\ unixNow = 1

\* the avatar fields of a node before anything is loaded or set
AvatarUnset ==
    /\ avatarPNG = <<>>
    /\ avatarHash = <<>>
    /\ avatarMTime = 0
    /\ avatarMime = <<>>
    /\ avArgs = [mime |-> <<>>, data |-> <<>>]
    /\ avReturn = [op |-> "", err |-> ""]

AvatarFileNames == {"avatar.bin", "avatar.mime", "avatar.png"}

NoReply == [sent |-> FALSE, ok |-> FALSE, unchanged |-> FALSE, h |-> <<>>, t |-> <<>>,
            s |-> 0, u |-> 0, resource |-> FALSE, error |-> "",
            known |-> <<>>, current |-> <<>>, atRest |-> FALSE]
NoFetch == [done |-> FALSE, HashHex |-> <<>>, DataBase64 |-> <<>>, Mime |-> <<>>,
            Unchanged |-> FALSE, NotPresent |-> FALSE, err |-> "", reply |-> NoReply]

\* no attachment call has been made
NoStore == [called |-> FALSE, data |-> <<>>, again |-> FALSE, stored |-> {},
            wroteBin |-> FALSE, binKept |-> TRUE, binsAdded |-> 0, err |-> "",
            info |-> [HashHex |-> <<>>, Mime |-> <<>>, Name |-> <<>>, Size |-> 0,
                      Updated |-> 0]]
NoLoad == [err |-> "", bytes |-> <<>>,
           info |-> [HashHex |-> <<>>, Mime |-> <<>>, Name |-> <<>>, Size |-> 0,
                     Updated |-> 0]]

InitFetch ==
    /\ avRequest = [sent |-> FALSE, h |-> <<>>]
    /\ avResponse = NoReply
    /\ avResource = [sent |-> FALSE, data |-> <<>>, kind |-> "", h |-> <<>>, t |-> <<>>]
    /\ fetchPc = "idle"
    /\ fetchLocals = [respHash |-> <<>>, respMime |-> <<>>]
    /\ fetchDone = NoFetch

\* the avatar of a node that has started in an empty directory
InitAvatarStarted ==
    /\ avatarFiles = [f \in AvatarFileNames |-> NoFile]
    /\ avPc = "idle"
    /\ AvatarUnset

(***************************************************************************)
(* The engine's specifications.                                            *)
(***************************************************************************)
InitEngine ==
    /\ pc = [t \in Threads |-> IF t = WD THEN "wd_wait" ELSE IF t = PA THEN "pa_wait" ELSE "idle"]
    /\ announceInFlight = 0
    /\ announceQueued = 0
    /\ reason = [p \in Callers |-> "none"]
    /\ deadline = [p \in Callers |-> NoTime]
    /\ preferDeadline = [p \in Callers |-> NoTime]
    /\ announceStopClosed = FALSE
    /\ announceStopOnce = FALSE
    /\ stopCloses = 0
    /\ networkResetMu = "free"
    /\ resetNames = [t \in Threads |-> <<>>]
    /\ resetIdx = [t \in Threads |-> 0]
    /\ ifaceEnabled = [n \in Ifaces |-> TRUE]
    /\ ifaceOnline = [n \in Ifaces |-> FALSE]
    /\ ifaceOfflineAt = [n \in Ifaces |-> NoTime]
    /\ lastIfaceReset = NoTime
    /\ wdScan = [anyOnline |-> FALSE, longestOffline |-> 0, lastReset |-> NoTime]
    /\ wdResetLog = [age |-> NoTime, sincePrev |-> NoTime]

AttachDataInputs == {<<>>, <<1, 2, 3>>, <<4, 5>>}

\* hex.EncodeToString(sum[:]) of each of them, computed once
AttachHashHex == [d \in AttachDataInputs |-> EncodeToString(Sum256(d))]

\* the names <hash> that files of attachments/out have
OutStems == {AttachHashHex[d] : d \in AttachDataInputs \ {<<>>}}

InitAttach ==
    /\ outFiles = [h \in OutStems |-> [bin |-> NoFile, mime |-> NoFile, name |-> NoFile]]
    /\ lastStore = NoStore

(***************************************************************************)
(* Fetching from a contact: ContactAvatarDataBase64Hex and                 *)
(* ContactAttachmentPathHex, with fetchAvatarViaDestination and            *)
(* fetchAttachmentViaDestination.  The fetcher is one thread, the          *)
(* transport another: it runs the callbacks the fetcher installs.          *)
(***************************************************************************)
\* part_000:129 and part_001:220, seconds
AvatarDefaultTimeout == 5
AttachDefaultTimeout == 10
\* part_000:181, seconds
PathWaitCap == 4

\* the peer's destination hash and the attachment hash as a caller may pass them
FxTextInputs ==
    { EncodeToString(PeerHash),
      <<" ">> \o ToUpper(EncodeToString(PeerHash)),
      AttachHashHex[<<1, 2, 3>>],
      <<" ">> \o ToUpper(AttachHashHex[<<1, 2, 3>>]) \o <<"\n">>,
      <<"z", "z">>,
      <<>> }

\* strings.ToLower(strings.TrimSpace(s)) and hex.DecodeString of each, computed once
FxNormal == [s \in FxTextInputs |-> ToLower(TrimSpace(s))]
FxDecoded == [s \in FxTextInputs |-> DecodeString(s)]

\* the directories of attachments/in that the model keeps
InDirs == {EncodeToString(PeerHash)}

\* what a peer does with a request: the response it sends ("ok": a map with ok = true,
\* "unchanged": the same with unchanged = true, "notok": a map without ok, "raw": bytes,
\* "nil": no value), the resource it sends, and whether the request fails
PeerInputs ==
    { [map |-> "ok", res |-> "complete", fails |-> FALSE],
      [map |-> "ok", res |-> "failed", fails |-> FALSE],
      [map |-> "unchanged", res |-> "none", fails |-> FALSE],
      [map |-> "notok", res |-> "none", fails |-> FALSE],
      [map |-> "raw", res |-> "none", fails |-> FALSE],
      [map |-> "nil", res |-> "none", fails |-> FALSE],
      [map |-> "none", res |-> "none", fails |-> TRUE],
      [map |-> "none", res |-> "none", fails |-> FALSE] }

\* no call is running
NoFx == [pc |-> "idle", kind |-> "", remote |-> <<>>, hashHex |-> <<>>,
         timeout |-> 0, idLeft |-> NoTime, pathLeft |-> NoTime, linkLeft |-> NoTime,
         dest |-> 0, respHash |-> <<>>, respMime |-> <<>>, respName |-> <<>>,
         gotMap |-> FALSE, idWaits |-> 0, pathReqs |-> 0, links |-> 0, requests |-> 0]

\* no link has been opened
NoLink == [open |-> FALSE, established |-> FALSE, closed |-> FALSE, requested |-> FALSE,
           respCh |-> <<>>, failCh |-> <<>>, resCh |-> <<>>,
           peer |-> [map |-> "none", res |-> "none", fails |-> FALSE]]

\* no call has returned
NoFxDone == [done |-> FALSE, call |-> NoFx, err |-> "", Path |-> <<>>, Data |-> <<>>,
             DataBase64 |-> <<>>, HashHex |-> <<>>, Mime |-> <<>>, Name |-> <<>>,
             Size |-> 0, NotPresent |-> FALSE, Unchanged |-> FALSE, via |-> "", peer |-> NoLink.peer]

InitFx ==
    /\ inFiles = [d \in InDirs |-> [bin |-> NoFile, mime |-> NoFile, name |-> NoFile]]
    /\ fx = NoFx
    /\ fxDone = NoFxDone
    /\ link = NoLink
    /\ cbBlocked = ""
    /\ hasPath = FALSE

\* the node after Start
(***************************************************************************)
(* The transport config: prepareRNSConfigDir, EnsureRNSConfig and           *)
(* ensureRNSAutoInterfaceDefaults.  The file is what configobj loads from  *)
(* it: the keys of [[Default Interface]], each a Go pair (v, ok).          *)
(***************************************************************************)
Absent == [ok |-> FALSE, v |-> <<>>]
Written(v) == [ok |-> TRUE, v |-> v]

AutoInterfaceText == <<"A", "u", "t", "o", "I", "n", "t", "e", "r", "f", "a", "c", "e">>
AutoInterfaceUpper == <<"A", "U", "T", "O", "I", "N", "T", "E", "R", "F", "A", "C", "E">>
TCPClientText == <<"T", "C", "P", "C", "l", "i", "e", "n", "t">>
YesText == <<"Y", "e", "s">>
NoText == <<"n", "o">>
En0 == <<"e", "n", "0">>
En1 == <<"e", "n", "1">>
Wlan0 == <<"w", "l", "a", "n", "0">>
Lo0 == <<"l", "o", "0">>
Utun1 == <<"u", "t", "u", "n", "1">>
Awdl0 == <<"a", "w", "d", "l", "0">>

\* no file, and the file that defaultInlineRNSConfig describes
NoConfig == [exists |-> FALSE, valid |-> FALSE, interfaces |-> FALSE, type |-> Absent,
             enabled |-> Absent, devices |-> Absent, ingress |-> Absent]
defaultInlineRNSConfig ==
    [exists |-> TRUE, valid |-> TRUE, interfaces |-> TRUE, type |-> Written(AutoInterfaceText),
     enabled |-> Written(YesText), devices |-> Absent, ingress |-> Written(NoText)]

\* strings.EqualFold, for the letters of the texts above
FoldUpper == <<"A", "C", "E", "F", "I", "L", "N", "O", "P", "R", "T", "U">>
FoldLower == <<"a", "c", "e", "f", "i", "l", "n", "o", "p", "r", "t", "u">>
FoldChar(c) == IF \E i \in 1..Len(FoldUpper) : c = FoldUpper[i]
               THEN FoldLower[CHOOSE i \in 1..Len(FoldUpper) : c = FoldUpper[i]] ELSE c
EqualFold(a, b) == [i \in 1..Len(a) |-> FoldChar(a[i])] = [i \in 1..Len(b) |-> FoldChar(b[i])]

\* strings.HasPrefix, strings.Split on one character, strings.Join
HasPrefix(s, p) == Len(s) >= Len(p) /\ SubSeq(s, 1, Len(p)) = p
RECURSIVE Split(_, _)
Split(s, sep) ==
    IF \E i \in 1..Len(s) : s[i] = sep
      THEN LET i == CHOOSE k \in 1..Len(s) : s[k] = sep /\ \A j \in 1..(k - 1) : s[j] # sep
           IN  <<SubSeq(s, 1, i - 1)>> \o Split(SubSeq(s, i + 1, Len(s)), sep)
      ELSE <<s>>
RECURSIVE Join(_, _)
Join(parts, sep) ==
    IF Len(parts) = 0 THEN <<>>
    ELSE IF Len(parts) = 1 THEN parts[1]
    ELSE parts[1] \o sep \o Join(Tail(parts), sep)

\* the order of Go's strings, for the characters of interface names
ByteOrder == <<"0", "1", "a", "d", "e", "l", "n", "o", "t", "u", "w">>
ByteOf(c) == CHOOSE i \in 1..Len(ByteOrder) : ByteOrder[i] = c
RECURSIVE StringLess(_, _)
StringLess(a, b) ==
    IF b = <<>> THEN FALSE
    ELSE IF a = <<>> THEN TRUE
    ELSE IF Head(a) # Head(b) THEN ByteOf(Head(a)) < ByteOf(Head(b))
    ELSE StringLess(Tail(a), Tail(b))

\* sort.Strings
RECURSIVE SortStrings(_)
SortStrings(names) ==
    IF names = <<>> THEN <<>>
    ELSE LET i == CHOOSE k \in 1..Len(names) :
                     \A j \in 1..Len(names) : ~StringLess(names[j], names[k])
         IN  <<names[i]>> \o SortStrings(SubSeq(names, 1, i - 1)
                                         \o SubSeq(names, i + 1, Len(names)))

\* the prefixes of the allowlist, lines 1216-1221
AllowedPrefixes == {<<"e", "n">>, <<"e", "t", "h">>, <<"w", "l", "a", "n">>,
                    <<"w", "l", "p">>, <<"w", "l">>, <<"p", "d", "p", "_", "i", "p">>}

\* autoInterfaceDefaultDevices, lines 1198-1228, over what net.Interfaces returns: the
\* interfaces that are up, by trimmed name, once each, those of the allowlist, sorted
RECURSIVE allowedOnce(_, _)
allowedOnce(ifaces, seen) ==
    IF ifaces = <<>> THEN <<>>
    ELSE LET nif == Head(ifaces)
             name == TrimSpace(nif.name)
         IN  IF ~nif.up \/ name = <<>> \/ name \in seen
               THEN allowedOnce(Tail(ifaces), seen)
             ELSE IF \E p \in AllowedPrefixes : HasPrefix(name, p)
               THEN <<name>> \o allowedOnce(Tail(ifaces), seen \cup {name})
             ELSE allowedOnce(Tail(ifaces), seen)
autoInterfaceDefaultDevices(ifaces) == SortStrings(allowedOnce(ifaces, {}))

\* lines 1165-1176: the names of a devices list, without the blank ones, utun* and awdl0
filteredDevices(v) ==
    LET parts == Split(v, ",")
        names == [i \in 1..Len(parts) |-> TrimSpace(parts[i])]
        keeps(name) == /\ name # <<>>
                       /\ ~HasPrefix(name, <<"u", "t", "u", "n">>)
                       /\ name # Awdl0
    IN  SelectSeq(names, keeps)

\* ensureRNSAutoInterfaceDefaults, lines 1143-1196, on the file and with the devices that
\* autoInterfaceDefaultDevices returns; cfg.Save writes what was set
ensureRNSAutoInterfaceDefaults(file, devs) ==
    IF ~file.valid \/ ~file.interfaces THEN file
    ELSE IF ~EqualFold(TrimSpace(file.type.v), AutoInterfaceText) THEN file
    ELSE LET v == file.devices.v
             filtered == IF filteredDevices(v) = <<>> THEN devs ELSE filteredDevices(v)
             normalized == Join(filtered, <<",", " ">>)
             devices ==
                 IF ~file.devices.ok \/ TrimSpace(v) = <<>>
                   THEN IF Len(devs) > 0 THEN Written(Join(devs, <<",", " ">>))
                        ELSE file.devices
                 ELSE IF TrimSpace(normalized) # TrimSpace(v) /\ normalized # <<>>
                   THEN Written(normalized)
                 ELSE file.devices
             ingress == IF ~file.ingress.ok \/ TrimSpace(file.ingress.v) = <<>>
                        THEN Written(NoText) ELSE file.ingress
         IN  [file EXCEPT !.devices = devices, !.ingress = ingress]


\* Start, node.go:114: prepareRNSConfigDir on a directory without a config
InitConfig ==
    /\ netIfaces = <<[name |-> En0, up |-> TRUE]>>
    /\ cfgFile = ensureRNSAutoInterfaceDefaults(defaultInlineRNSConfig, <<En0>>)
    /\ cfgLast = "prepare"

\* no recordAnnounce call was made
NoEntry == [DestinationHashHex |-> <<>>, DisplayName |-> <<>>, LastSeen |-> 0]

\* Start, node.go:149-170: the router registers the delivery destination, then
\* initProfileDestination creates the profile destination and registers both paths on both
InitCtl ==
    /\ setEnabledDone = [n \in Ifaces |-> "none"]
    /\ staleStamp = [n \in Ifaces |-> FALSE]
    /\ announces = <<>>
    /\ annEntry = NoEntry
    /\ snapshot = <<>>

InitDest ==
    /\ deliveryDestIn = 1
    /\ profileDestIn = 2
    /\ destsMade = 2
    /\ identity = 1
    /\ router = 1
    /\ deliveryCallback = {1}
    /\ onInbound = FALSE
    /\ lastInbound = "none"
    /\ destHandlers = [d \in 1..MaxDests |-> IF d \in {1, 2} THEN RequestPaths ELSE {}]

InitNode ==
    InitEngine /\ InitApp /\ InitAvatarStarted /\ InitFetch /\ InitAttach /\ InitFx /\ InitDest
    /\ InitConfig /\ InitCtl

\* the announce engine, with the interface resets its "resume" attempts run
NextAnnounce ==
    \/ Tick
    \/ \E n \in Ifaces, b \in BOOLEAN : SetOnline(n, b)
    \/ \E p \in Callers, r \in {"manual", "periodic", "restart", "resume"} : AnnounceEnter(p, r)
    \/ \E p \in Callers : StoreQueued(p)
    \/ \E p \in Callers : AttemptStart(p)
    \/ \E p \in Callers : Poll(p)
    \/ \E p \in Callers : Stabilise(p)
    \/ \E p \in Callers : DeadlineCheck(p)
    \/ \E p \in Callers : Emit(p)
    \/ \E p \in Callers : ClearInFlight(p)
    \/ \E p \in Callers : SwapQueued(p)
    \/ \E p \in Callers : FollowUpEnter(p)
    \/ \E t \in Callers : ResetLock(t)
    \/ \E t \in Callers, ok \in BOOLEAN : ResetHalt(t, ok)
    \/ \E t \in Callers : ResetSleep(t)
    \/ \E t \in Callers : ResetResume(t)
    \/ \E t \in Callers : ResetUnlock(t)
    \/ Close

SpecAnnounce == InitNode /\ [][NextAnnounce]_vars

\* the same with the scheduler's guarantee: time passes, and a thread that can take a
\* step of a call or of an attempt's goroutine takes it; nobody has to call
SpecAnnounceFair ==
    /\ SpecAnnounce
    /\ WF_vars(Tick)
    /\ \A p \in Callers :
          WF_vars(\/ StoreQueued(p) \/ AttemptStart(p) \/ Poll(p) \/ Stabilise(p)
                  \/ DeadlineCheck(p) \/ Emit(p) \/ ClearInFlight(p) \/ SwapQueued(p)
                  \/ FollowUpEnter(p) \/ ResetLock(p) \/ ResetSleep(p) \/ ResetResume(p)
                  \/ ResetUnlock(p) \/ \E ok \in BOOLEAN : ResetHalt(p, ok))

\* calls and attempts within the first 20 s of each attempt and before Close: an attempt
\* that ends, ends by emitting
NextEmitting ==
    \/ \E n \in Ifaces, b \in BOOLEAN : SetOnline(n, b)
    \/ \E p \in Callers : AnnounceEnter(p, "manual")
    \/ \E p \in Callers : StoreQueued(p)
    \/ \E p \in Callers : AttemptStart(p)
    \/ \E p \in Callers : Poll(p)
    \/ \E p \in Callers : Stabilise(p)
    \/ \E p \in Callers : DeadlineCheck(p)
    \/ \E p \in Callers : Emit(p)
    \/ \E p \in Callers : ClearInFlight(p)
    \/ \E p \in Callers : SwapQueued(p)
    \/ \E p \in Callers : FollowUpEnter(p)

SpecEmitting == InitNode /\ [][NextEmitting]_vars

SetEnabledOutcomes == {"ok", "save_failed", "apply_failed"}

\* the thread whose announces the watchdog's resets compete with
Resumer == <<"ui", "ticker", "lifecycle", "ffi">>[1]

\* the watchdog, with one thread that announces on resume (alone, it never finds an
\* attempt in flight)
NextWatchdog ==
    \/ Tick
    \/ \E n \in Ifaces, b \in BOOLEAN : SetOnline(n, b)
    \/ AnnounceEnter(Resumer, "resume")
    \/ AttemptStart(Resumer)
    \/ Poll(Resumer)
    \/ Stabilise(Resumer)
    \/ DeadlineCheck(Resumer)
    \/ Emit(Resumer)
    \/ ClearInFlight(Resumer)
    \/ SwapQueued(Resumer)
    \/ \E t \in {WD, Resumer} : ResetLock(t)
    \/ \E t \in {WD, Resumer}, ok \in BOOLEAN : ResetHalt(t, ok)
    \/ \E t \in {WD, Resumer} : ResetSleep(t)
    \/ \E t \in {WD, Resumer} : ResetResume(t)
    \/ \E t \in {WD, Resumer} : ResetUnlock(t)
    \/ WatchdogScan
    \/ WatchdogDecide
    \/ WatchdogExit
    \/ Close

SpecWatchdog == InitNode /\ [][NextWatchdog]_vars

\* the two loops that Start begins and Close, on a node whose interfaces stay offline:
\* the watchdog resets them, and an attempt of the periodic announce polls until its
\* deadline or the stop channel ends it
NextClose ==
    \/ Tick
    \/ PeriodicFire(Resumer)
    \/ PeriodicStoreQueued
    \/ PeriodicExit
    \/ AttemptStart(Resumer)
    \/ Poll(Resumer)
    \/ DeadlineCheck(Resumer)
    \/ ResetLock(WD)
    \/ \E ok \in BOOLEAN : ResetHalt(WD, ok)
    \/ ResetSleep(WD)
    \/ ResetResume(WD)
    \/ ResetUnlock(WD)
    \/ WatchdogScan
    \/ WatchdogDecide
    \/ WatchdogExit
    \/ Close

\* a goroutine that can take a step takes it; a select with several ready cases picks
\* one at random, so a case that is ready at every visit is taken at some visit
SpecClose ==
    /\ InitNode
    /\ [][NextClose]_vars
    /\ WF_vars(PeriodicStoreQueued)
    /\ WF_vars(\/ WatchdogDecide \/ ResetLock(WD) \/ ResetSleep(WD) \/ ResetResume(WD)
               \/ ResetUnlock(WD) \/ \E ok \in BOOLEAN : ResetHalt(WD, ok))
    /\ SF_vars(PeriodicExit)
    /\ SF_vars(WatchdogExit)

\* one thread's attempts, with a config whose sections are enabled and disabled
NextAttempt ==
    \/ Tick
    \/ \E n \in Ifaces, b \in BOOLEAN : SetOnline(n, b)
    \/ \E n \in Ifaces, b \in BOOLEAN : SetEnabled(n, b)
    \/ \E r \in {"manual", "resume"} : AnnounceEnter(Resumer, r)
    \/ AttemptStart(Resumer)
    \/ Poll(Resumer)
    \/ Stabilise(Resumer)
    \/ DeadlineCheck(Resumer)
    \/ Emit(Resumer)
    \/ ClearInFlight(Resumer)
    \/ SwapQueued(Resumer)
    \/ ResetLock(Resumer)
    \/ \E ok \in BOOLEAN : ResetHalt(Resumer, ok)
    \/ ResetSleep(Resumer)
    \/ ResetResume(Resumer)
    \/ ResetUnlock(Resumer)
    \/ Close

SpecAttempt == InitNode /\ [][NextAttempt]_vars

\* the UI switches interfaces on and off through the node while "resume" announces
\* reset them
NextToggle ==
    \/ Tick
    \/ \E n \in Ifaces, b \in BOOLEAN : SetOnline(n, b)
    \/ \E n \in Ifaces, enabled \in BOOLEAN, outcome \in SetEnabledOutcomes :
            SetInterfaceEnabled(n, enabled, outcome)
    \/ AnnounceEnter(Resumer, "resume")
    \/ AttemptStart(Resumer)
    \/ ResetLock(Resumer)
    \/ \E ok \in BOOLEAN : ResetHalt(Resumer, ok)
    \/ ResetSleep(Resumer)
    \/ ResetResume(Resumer)
    \/ ResetUnlock(Resumer)
    \/ Poll(Resumer)
    \/ Stabilise(Resumer)
    \/ DeadlineCheck(Resumer)
    \/ Emit(Resumer)
    \/ ClearInFlight(Resumer)
    \/ SwapQueued(Resumer)

SpecToggle == InitNode /\ [][NextToggle]_vars

\* the watchdog alone, with interfaces that come and go and a config that is edited
NextStall ==
    \/ Tick
    \/ \E n \in Ifaces, b \in BOOLEAN : SetOnline(n, b)
    \/ \E n \in Ifaces, b \in BOOLEAN : SetEnabled(n, b)
    \/ WatchdogScan
    \/ WatchdogDecide
    \/ ResetLock(WD)
    \/ \E ok \in BOOLEAN : ResetHalt(WD, ok)
    \/ ResetSleep(WD)
    \/ ResetResume(WD)
    \/ ResetUnlock(WD)

SpecStall == InitNode /\ [][NextStall]_vars

\* the same with the scheduler's guarantee: time passes and the attempt's goroutine
\* takes the step it can take; the interfaces, the config and the callers owe nothing
SpecAttemptFair ==
    /\ SpecAttempt
    /\ WF_vars(Tick)
    /\ WF_vars(\/ AttemptStart(Resumer) \/ Poll(Resumer) \/ Stabilise(Resumer)
               \/ DeadlineCheck(Resumer) \/ Emit(Resumer) \/ ClearInFlight(Resumer)
               \/ SwapQueued(Resumer) \/ ResetLock(Resumer) \/ ResetSleep(Resumer)
               \/ ResetResume(Resumer) \/ ResetUnlock(Resumer)
               \/ \E ok \in BOOLEAN : ResetHalt(Resumer, ok))

(***************************************************************************)
(* Node.Restart                                                            *)
(***************************************************************************)
\* part_000:23-48, called with the node's fields as they are: nothing when the profile
\* destination exists; else a new destination with both paths, and both paths on the
\* delivery destination when there is one
initProfileDestination(made, handlers) ==
    IF profileDestIn # 0
      THEN [profile |-> profileDestIn, made |-> made, handlers |-> handlers]
      ELSE [profile |-> made + 1,
            made |-> made + 1,
            handlers |-> [d \in 1..MaxDests |->
                             IF d = made + 1 \/ d = deliveryDestIn THEN RequestPaths
                             ELSE handlers[d]]]

\* node.go:326-347, by one caller at a time: the checks, then the old router exits and the
\* node's router and delivery destination are nil until the new ones are built
Restart(p) ==
    LET prof == initProfileDestination(destsMade, destHandlers)
    IN  /\ pc[p] = "idle"
        /\ \A q \in Callers : pc[q] \notin {"restart_build", "restart"}
        /\ prof.made < MaxDests
        /\ identity # 0
        /\ profileDestIn' = prof.profile
        /\ destHandlers' = prof.handlers
        /\ destsMade' = prof.made
        /\ router' = 0
        /\ deliveryDestIn' = IF router # 0 THEN 0 ELSE deliveryDestIn
        /\ pc' = [pc EXCEPT ![p] = "restart_build"]
        /\ UNCHANGED <<identity, deliveryCallback, onInbound, lastInbound>>
        /\ UNCHANGED <<annVars, stopVars, resetVars, ifaceEnabled, ifaceOnline, wdVars>>
        /\ UNCHANGED <<identityCache, sendVars, contactVars, unixNow, avatarVars, fetchVars,
                       attachVars, cfgVars, ctlVars>>

\* node.go:349-365: a new router registers a new delivery destination and gets the
\* delivery callback; a router or a destination that fails ends the call with the node's
\* fields as they are
RestartBuild(p, routerOk, deliveryOk) ==
    /\ pc[p] = "restart_build"
    /\ routerOk \/ deliveryOk
    /\ IF routerOk /\ deliveryOk
         THEN /\ destsMade' = destsMade + 1
              /\ router' = destsMade + 1
              /\ deliveryDestIn' = destsMade + 1
              /\ deliveryCallback' = deliveryCallback \cup {destsMade + 1}
              /\ pc' = [pc EXCEPT ![p] = "restart"]
         ELSE /\ pc' = [pc EXCEPT ![p] = "idle"]
              /\ UNCHANGED <<destsMade, router, deliveryDestIn, deliveryCallback>>
    /\ UNCHANGED <<identity, profileDestIn, destHandlers, onInbound, lastInbound>>
    /\ UNCHANGED <<annVars, stopVars, resetVars, ifaceEnabled, ifaceOnline, wdVars>>
    /\ UNCHANGED <<identityCache, sendVars, contactVars, unixNow, avatarVars, fetchVars,
                   attachVars, cfgVars, ctlVars>>

\* node.go:368: n.AnnounceDeliveryWithReason("restart"), lines 536-548 and 558
RestartAnnounce(p) ==
    /\ pc[p] = "restart"
    /\ IF router = 0 \/ deliveryDestIn = 0
         THEN /\ pc' = [pc EXCEPT ![p] = "idle"]
              /\ UNCHANGED <<announceInFlight, reason>>
         ELSE IF CASInFlight
         THEN /\ announceInFlight' = 1
              /\ pc' = [pc EXCEPT ![p] = "start"]
              /\ reason' = [reason EXCEPT ![p] = "restart"]
         ELSE /\ pc' = [pc EXCEPT ![p] = "storeq"]
              /\ UNCHANGED <<announceInFlight, reason>>
    /\ UNCHANGED <<announceQueued, deadline, preferDeadline, stopVars,
                   resetVars, ifaceEnabled, ifaceOnline, wdVars>>
    /\ UNCHANGED appVars

\* node.go:372-374: SetInboundHandler
SetInboundHandler(set) ==
    /\ onInbound # set
    /\ onInbound' = set
    /\ UNCHANGED <<identity, router, deliveryCallback, lastInbound, profileDestIn,
                   deliveryDestIn, destHandlers, destsMade>>
    /\ UNCHANGED engineVars
    /\ UNCHANGED <<identityCache, sendVars, contactVars, unixNow, avatarVars, fetchVars,
                   attachVars, cfgVars, ctlVars>>

\* the node's router delivers a message: the callback of lines 361-365, when the router
\* has it, hands the message to the handler, when there is one
RouterDelivers ==
    /\ router # 0
    /\ lastInbound' = IF router \in deliveryCallback /\ onInbound THEN "handler"
                      ELSE "dropped"
    /\ UNCHANGED <<identity, router, deliveryCallback, onInbound, profileDestIn,
                   deliveryDestIn, destHandlers, destsMade>>
    /\ UNCHANGED engineVars
    /\ UNCHANGED <<identityCache, sendVars, contactVars, unixNow, avatarVars, fetchVars,
                   attachVars, cfgVars, ctlVars>>

\* a node that is restarted while its announces run
NextRestart ==
    \/ Tick
    \/ \E b \in BOOLEAN : SetOnline(IfaceNames[1], b)
    \/ \E p \in Callers : Restart(p)
    \/ \E p \in Callers, routerOk, deliveryOk \in BOOLEAN : RestartBuild(p, routerOk, deliveryOk)
    \/ \E p \in Callers : RestartAnnounce(p)
    \/ \E set \in BOOLEAN : SetInboundHandler(set)
    \/ RouterDelivers
    \/ \E p \in Callers :
          \/ StoreQueued(p)
          \/ AttemptStart(p)
          \/ Poll(p)
          \/ Stabilise(p)
          \/ DeadlineCheck(p)
          \/ Emit(p)
          \/ ClearInFlight(p)
          \/ SwapQueued(p)
          \/ FollowUpEnter(p)

SpecRestart == InitNode /\ [][NextRestart]_vars

(***************************************************************************)
(* The transport config on Start, and what else touches the file.          *)
(***************************************************************************)
\* os.Stat(cfgPath) returns no error
ConfigPresent_Never(file) == FALSE

ConfigPresent(file) == file.exists

\* prepareRNSConfigDir, lines 1104-1139, as Start calls it: nothing with a config directory
\* of the caller's; else the template over the file when asked to reset or when there is
\* none, and the defaults filled in
prepareRNSConfigDir(custom, reset) ==
    LET devs == autoInterfaceDefaultDevices(netIfaces)
    IN  /\ ~(custom /\ reset)
        /\ IF custom
             THEN UNCHANGED <<cfgFile, cfgLast>>
             ELSE /\ cfgFile' = IF reset \/ ~ConfigPresent(cfgFile)
                                  THEN ensureRNSAutoInterfaceDefaults(defaultInlineRNSConfig,
                                                                      devs)
                                  ELSE ensureRNSAutoInterfaceDefaults(cfgFile, devs)
                  /\ cfgLast' = IF reset THEN "prepare, reset" ELSE "prepare"
        /\ UNCHANGED netIfaces
        /\ UNCHANGED <<engineVars, ctlVars, destVars, attachVars, identityCache, sendVars, contactVars,
                       unixNow, avatarVars, fetchVars>>

\* EnsureRNSConfig, part_005:132-146: the template when there is no file
EnsureRNSConfig ==
    /\ cfgFile' = IF ConfigPresent(cfgFile) THEN cfgFile ELSE defaultInlineRNSConfig
    /\ cfgLast' = "ensure"
    /\ UNCHANGED netIfaces
    /\ UNCHANGED <<engineVars, ctlVars, destVars, attachVars, identityCache, sendVars, contactVars,
                   unixNow, avatarVars, fetchVars>>

\* what users write into [[Default Interface]]
TypeInputs == {Absent, Written(AutoInterfaceText), Written(<<" ">> \o AutoInterfaceUpper),
               Written(TCPClientText)}
DevicesInputs ==
    {Absent, Written(<<" ">>), Written(En0), Written(<<" ">> \o En0 \o <<" ">>),
     Written(En0 \o <<",">> \o En1), Written(En0 \o <<",", " ">> \o En1),
     Written(En0 \o <<",", ",">> \o En1), Written(Utun1), Written(Utun1 \o <<",", " ">> \o En0),
     Written(Awdl0 \o <<",">> \o Utun1), Written(Awdl0 \o <<"1">>)}
IngressInputs == {Absent, Written(<<>>), Written(NoText), Written(YesText)}
ConfigInputs ==
    {NoConfig, [defaultInlineRNSConfig EXCEPT !.valid = FALSE],
     [defaultInlineRNSConfig EXCEPT !.interfaces = FALSE]}
    \cup {[defaultInlineRNSConfig EXCEPT !.type = t, !.devices = d, !.ingress = g,
                                         !.enabled = Written(NoText)] :
            t \in TypeInputs, d \in DevicesInputs, g \in IngressInputs}

\* the user edits, replaces or deletes the file
UserEdit(file) ==
    /\ file # cfgFile
    /\ cfgFile' = file
    /\ cfgLast' = "edit"
    /\ UNCHANGED netIfaces
    /\ UNCHANGED <<engineVars, ctlVars, destVars, attachVars, identityCache, sendVars, contactVars,
                   unixNow, avatarVars, fetchVars>>

\* what net.Interfaces returns
NetInputs ==
    {<<>>,
     <<[name |-> En0, up |-> TRUE]>>,
     <<[name |-> Wlan0, up |-> TRUE], [name |-> Utun1, up |-> TRUE],
       [name |-> En0, up |-> TRUE], [name |-> Wlan0, up |-> TRUE]>>,
     <<[name |-> Lo0, up |-> TRUE], [name |-> En1, up |-> FALSE]>>}

\* interfaces of the host come and go
NetChange(ifaces) ==
    /\ ifaces # netIfaces
    /\ netIfaces' = ifaces
    /\ cfgLast' = "net"
    /\ UNCHANGED cfgFile
    /\ UNCHANGED <<engineVars, ctlVars, destVars, attachVars, identityCache, sendVars, contactVars,
                   unixNow, avatarVars, fetchVars>>

NextConfig ==
    \/ \E custom, reset \in BOOLEAN : prepareRNSConfigDir(custom, reset)
    \/ EnsureRNSConfig
    \/ \E file \in ConfigInputs : UserEdit(file)
    \/ \E ifaces \in NetInputs : NetChange(ifaces)

SpecConfig == InitNode /\ [][NextConfig]_vars

(***************************************************************************)
(* Claims about the engine.                                                *)
(***************************************************************************)
InFlightAttempts == {p \in Callers : pc[p] \in InFlightPCs}

\* C1: under any interleaving of AnnounceDeliveryWithReason calls at most one attempt
\* is in flight (between the CAS it won and the store that clears in_flight), the flag
\* says so, and a call that finds an attempt in flight starts none: it sets queued = 1
\* and returns, so that at most one follow-up is deferred.
C1_SingleFlight ==
    /\ [](/\ Cardinality(InFlightAttempts) <= 1
          /\ announceInFlight = Cardinality(InFlightAttempts)
          /\ announceQueued \in {0, 1})
    /\ [][\A p \in Callers :
            /\ (pc[p] \in {"idle", "fcas"} /\ pc'[p] = "storeq") =>
                  announceInFlight = 1 /\ InFlightAttempts' = InFlightAttempts
            /\ pc[p] = "storeq" /\ pc'[p] # "storeq" =>
                 /\ pc'[p] = "idle"
                 /\ announceQueued' = 1
                 /\ InFlightAttempts' = InFlightAttempts]_vars

\* an attempt is in flight, a follow-up is already deferred, and one more call has just
\* lost the CAS
C1_Witness ==
    \E p, q \in Callers :
        /\ p # q
        /\ pc[p] \in InFlightPCs
        /\ pc[q] = "storeq"
        /\ announceQueued = 1

InResetBlock == {t \in Threads : pc[t] \in {"r_halt", "r_sleep", "r_resume", "r_unlock"}}

\* C2: the halt-sleep-resume block of the reset procedure never interleaves with
\* another run of itself: at most one thread is inside it, and it holds the mutex.
C2_ResetSerialised ==
    /\ Cardinality(InResetBlock) <= 1
    /\ \A t \in InResetBlock : networkResetMu = t

\* the watchdog is between its first halt and its last resume while the resume
\* announce waits for the mutex
C2_Witness ==
    /\ pc[WD] = "r_resume"
    /\ pc[Resumer] = "r_lock"
    /\ reason[Resumer] = "resume"

\* the watchdog decides for a reset in this step
WatchdogTriggers == pc[WD] = "wd_decide" /\ pc'[WD] = "r_lock"

EnabledIfaces == SeqRange(enabledInterfaceConfigs)

\* C3: the watchdog starts a reset only if every enabled interface was offline at this
\* tick, the longest tracked offline duration is at least 6 s and the last reset was at
\* least 12 s ago (or there was none); it then sets last-reset to now before the reset
\* procedure runs, so that two watchdog resets are never triggered less than 12 s apart.
C3_WatchdogTrigger ==
    /\ [][/\ WatchdogTriggers =>
               /\ \A n \in EnabledIfaces : ifaceOfflineAt[n] # NoTime
               /\ \E n \in EnabledIfaces : ifaceOfflineAt[n] >= OfflineResetAfter
               /\ lastIfaceReset = NoTime \/ lastIfaceReset >= ResetMinSpacing
               /\ lastIfaceReset' = 0
          /\ pc[WD] # "r_lock" /\ pc'[WD] = "r_lock" => WatchdogTriggers]_vars
    /\ [](/\ wdResetLog.sincePrev = NoTime \/ wdResetLog.sincePrev >= ResetMinSpacing
          /\ pc[WD] \in {"r_lock", "r_halt", "r_sleep", "r_resume", "r_unlock"} =>
               lastIfaceReset # NoTime /\ lastIfaceReset = wdResetLog.age)

\* the watchdog has triggered a second reset and is about to run it
C3_Witness ==
    /\ pc[WD] = "r_lock"
    /\ wdResetLog.sincePrev # NoTime
    /\ lastIfaceReset = 0

\* C11: with no interface online and a second call that has set queued = 1 while the
\* first attempt gates, the attempt that is skipped at the 20 s hard deadline is
\* followed by an attempt with reason "queued" (unless the node is closed first).
C11_SkippedThenFollowUp ==
    (\E p \in Callers :
        /\ pc[p] = "deadline_chk"
        /\ deadline[p] = PastDue
        /\ announceQueued = 1
        /\ ~announceStopClosed
        /\ ~hasAnyOnlineInterface)
    ~> (\/ \E q \in Callers : pc[q] \in InFlightPCs /\ reason[q] = "queued"
        \/ announceStopClosed)

\* C14: an attempt reaches the stabilisation sleep only from a poll that found the node
\* ready, and the emission only from a re-check after the sleep that found at least one
\* enabled interface online (with no interface enabled: some runtime interface online);
\* there is no other way to the emission.
C14_EmitsOnlyWhenReady ==
    [][\A p \in Callers :
          LET usable == IF EnabledIfaces = {} THEN hasAnyOnlineInterface
                        ELSE \E n \in EnabledIfaces : ifaceOnline[n]
          IN  /\ (pc[p] # "stab" /\ pc'[p] = "stab") => (pc[p] = "poll" /\ usable)
              /\ (pc[p] # "emit" /\ pc'[p] = "emit") => (pc[p] = "stab" /\ usable)]_vars

\* an attempt is about to emit with no interface enabled and one online
C14_Witness ==
    /\ pc[Resumer] = "emit"
    /\ EnabledIfaces = {}
    /\ hasAnyOnlineInterface

\* C13: close(n.announceStop) is executed at most once however often Close is called,
\* and exactly once when it was called; once the channel is closed the loop of the
\* periodic announce and the loop of the watchdog both end, and stay ended.
C13_ClosedOnceLoopsEnd ==
    /\ [](stopCloses = IF announceStopOnce THEN 1 ELSE 0)
    /\ [](announceStopOnce = announceStopClosed)
    /\ announceStopClosed ~> [](pc[PA] = "pa_exit" /\ pc[WD] = "wd_exit")

\* Close was called while the watchdog was in a reset and an attempt in flight, and both
\* loops have ended
C13_Witness ==
    /\ stopCloses = 1
    /\ pc[PA] = "pa_exit"
    /\ pc[WD] = "wd_exit"
    /\ announceInFlight = 1

(***************************************************************************)
(* The send path: Node.SendHex.                                            *)
(***************************************************************************)
\* SendHex calls the model follows
MaxSends == 2

\* an announce of a peer reaches the transport, which caches its identity and app data
AnnounceObserved(h, a) ==
    /\ identityCache[h] # [known |-> TRUE, appData |-> a]
    /\ identityCache' = [identityCache EXCEPT ![h] = [known |-> TRUE, appData |-> a]]
    /\ UNCHANGED <<engineVars, ctlVars, destVars, cfgVars, attachVars, sendVars, contactVars, unixNow, avatarVars, fetchVars>>

\* a send path without the loopback case
IsSelf_Never(destHash) == FALSE

\* bytes.Equal(destHash, n.deliveryDestIn.Hash())
IsSelf(destHash) == destHash = SelfHash

\* lxmf.NewLXMessage(outDest, n.deliveryDestIn, content, title, fields, method, ...)
NewLXMessage(destHash, method) ==
    [dest |-> destHash, source |-> SelfHash, title |-> <<"t">>, content |-> <<"h", "i">>,
     method |-> method]

\* lxm.Pack(false) fills lxm.Packed
Pack(lxm) == [packed |-> lxm]

\* the calls of SendHex that may fail: rns.NewDestination, lxmf.NewLXMessage, lxm.Pack,
\* router.LXMDelivery
SendFailures == {"none", "NewDestination", "NewLXMessage", "Pack", "LXMDelivery"}

\* a send path that does not give up on a hash without an identity
SendOutcome_UnknownPasses(destHex, fails) ==
    LET dec == DecodeDestHex(destHex) IN
    IF ~dec.ok THEN "decode destination hash"
    ELSE IF Len(dec.bytes) # DestinationLength THEN "invalid destination hash length"
    ELSE IF fails = "NewDestination" THEN "create outbound destination"
    ELSE IF fails = "NewLXMessage" THEN "new message"
    ELSE IF IsSelf(dec.bytes) /\ fails = "Pack" THEN "pack"
    ELSE IF IsSelf(dec.bytes) /\ fails = "LXMDelivery" THEN "local loopback delivery failed"
    ELSE ""

\* how far a SendHex call gets: the error it returns, "" for none
SendOutcome(destHex, fails) ==
    LET dec == DecodeDestHex(destHex) IN
    IF ~dec.ok THEN "decode destination hash"
    ELSE IF Len(dec.bytes) # DestinationLength THEN "invalid destination hash length"
    ELSE IF ~IsSelf(dec.bytes) /\ ~IdentityRecall(dec.bytes).known
         THEN "unknown destination identity"
    ELSE IF fails = "NewDestination" THEN "create outbound destination"
    ELSE IF fails = "NewLXMessage" THEN "new message"
    ELSE IF IsSelf(dec.bytes) /\ fails = "Pack" THEN "pack"
    ELSE IF IsSelf(dec.bytes) /\ fails = "LXMDelivery" THEN "local loopback delivery failed"
    ELSE ""

\* SendHex(destinationHashHex, msg); fails is the first of its calls that fails, should
\* the call be reached
SendHex(destHex, method, fails) ==
    LET dec == DecodeDestHex(destHex)
        valid == dec.ok /\ Len(dec.bytes) = DestinationLength
        err == SendOutcome(destHex, fails)
        lxm == NewLXMessage(dec.bytes, IF method = "unset" THEN "opportunistic" ELSE method)
        built == valid /\ err \notin {"unknown destination identity",
                                      "create outbound destination", "new message"}
        loop == built /\ IsSelf(dec.bytes) /\ err # "pack"
        out == built /\ ~IsSelf(dec.bytes)
    IN  /\ Len(routerOutbound) + Len(routerDelivered) < MaxSends
        /\ lastSend' = [called |-> TRUE, destHex |-> destHex,
                        recalled |-> valid /\ ~IsSelf(dec.bytes),
                        anyOnline |-> hasAnyOnlineInterface,
                        localDelivery |-> loop, outbound |-> out, err |-> err]
        /\ routerDelivered' = IF loop THEN Append(routerDelivered, Pack(lxm))
                              ELSE routerDelivered
        /\ routerOutbound' = IF out THEN Append(routerOutbound, lxm) ELSE routerOutbound
        /\ UNCHANGED <<engineVars, ctlVars, destVars, cfgVars, attachVars, identityCache, contactVars, unixNow,
                       avatarVars, fetchVars>>

(***************************************************************************)
(* Contact info: Node.ContactInfoHex.                                      *)
(***************************************************************************)
\* the longest timeout a caller passes, in poll periods of 120 ms
MaxContactTimeout == 2

EmptyInfo == [DisplayName |-> <<>>, HasAvatar |-> FALSE,
              Avatar |-> [HashHex |-> <<>>, Mime |-> <<>>, Size |-> 0, Updated |-> 0]]

\* lines 78-116: the avatar metadata of the third item
AvatarInfoOf(m) ==
    [HashHex |-> IF m["h"].t = "bytes" /\ Len(m["h"].b) > 0
                 THEN EncodeToString(m["h"].b) ELSE <<>>,
     Mime |-> IF m["t"].t = "str" THEN m["t"].b ELSE <<>>,
     Size |-> IF m["s"].t \in {"int", "int64", "float64"} THEN m["s"].n ELSE 0,
     Updated |-> IF m["u"].t \in {"int", "int64", "float64"} THEN m["u"].n ELSE 0]

\* lines 61-118: the ContactInfo decoded from non-empty app data
ContactInfoOf(appData) ==
    IF appData.kind # "list" THEN EmptyInfo
    ELSE LET items == appData.items
             name == IF Len(items) > 0 /\ items[1].t \in {"bytes", "str"}
                     THEN items[1].b ELSE <<>>
             av == IF Len(items) > 2 /\ items[3].t = "map"
                   THEN AvatarInfoOf(items[3].m) ELSE EmptyInfo.Avatar
         IN  [DisplayName |-> name, HasAvatar |-> av # EmptyInfo.Avatar, Avatar |-> av]

\* id != nil && len(id.AppData) > 0
HasAppData(id) == id.known /\ id.appData.kind # "empty"

\* a call that requests a path whatever its timeout
WaitsForNetwork_Always(timeout) == TRUE

\* line 38: the call waits for the network
WaitsForNetwork(timeout) == timeout > 0

\* the call returns
ContactReturn(call, err, info) ==
    /\ contactDone' = [call |-> call, err |-> err, info |-> info]
    /\ contactCall' = NoCall
    /\ contactPc' = "idle"

\* lines 25-47: decode the hash; with no timeout recall once and return, else request
\* a path and start polling
ContactInfoHex(destHex, timeout) ==
    LET dec == DecodeDestHex(destHex)
        call == [NoCall EXCEPT !.called = TRUE, !.destHex = destHex, !.timeout = timeout]
        id == IdentityRecall(dec.bytes)
    IN  /\ contactPc = "idle"
        /\ IF ~dec.ok THEN ContactReturn(call, "decode destination hash", EmptyInfo)
           ELSE IF Len(dec.bytes) # 16
                THEN ContactReturn(call, "invalid destination hash length", EmptyInfo)
           ELSE IF ~WaitsForNetwork(timeout)
                THEN ContactReturn([call EXCEPT !.recalls = 1], "",
                                   IF HasAppData(id) THEN ContactInfoOf(id.appData)
                                   ELSE EmptyInfo)
           ELSE /\ contactCall' = [call EXCEPT !.pathRequests = 1, !.left = timeout]
                /\ contactPc' = "poll"
                /\ UNCHANGED contactDone
        /\ UNCHANGED <<engineVars, ctlVars, destVars, cfgVars, attachVars, identityCache, sendVars, unixNow, avatarVars,
                       fetchVars>>

\* lines 49-56: one round of the loop up to the sleep
ContactPoll ==
    LET id == IdentityRecall(DecodeDestHex(contactCall.destHex).bytes)
        call == [contactCall EXCEPT !.recalls = @ + 1]
    IN  /\ contactPc = "poll"
        /\ IF HasAppData(id) THEN ContactReturn(call, "", ContactInfoOf(id.appData))
           ELSE IF contactCall.left < 0 THEN ContactReturn(call, "", EmptyInfo)
           ELSE /\ contactCall' = call
                /\ contactPc' = "sleep"
                /\ UNCHANGED contactDone
        /\ UNCHANGED <<engineVars, ctlVars, destVars, cfgVars, attachVars, identityCache, sendVars, unixNow, avatarVars,
                       fetchVars>>

\* line 57: time.Sleep(120 ms) lets at least one poll period pass
ContactSleep(d) ==
    /\ contactPc = "sleep"
    /\ contactCall' = [contactCall EXCEPT !.left = Max({@ - d, -1})]
    /\ contactPc' = "poll"
    /\ UNCHANGED <<engineVars, ctlVars, destVars, cfgVars, attachVars, identityCache, sendVars, contactDone, unixNow,
                   avatarVars, fetchVars>>

(***************************************************************************)
(* The specifications of the send path and of the contact info.            *)
(***************************************************************************)
NextSend ==
    \/ \E n \in Ifaces, b \in BOOLEAN : SetOnline(n, b)
    \/ AnnounceObserved(PeerHash, NameOnlyAppData)
    \/ \E d \in DestHexInputs, m \in {"unset", "direct"}, f \in SendFailures : SendHex(d, m, f)

SpecSend == InitNode /\ [][NextSend]_vars

NextContact ==
    \/ \E a \in AppDataInputs : AnnounceObserved(PeerHash, a)
    \/ \E d \in DestHexInputs, t \in {-1} \cup (0..MaxContactTimeout) :
          ContactInfoHex(d, t)
    \/ ContactPoll
    \/ \E d \in 1..2 : ContactSleep(d)

SpecContact == InitNode /\ [][NextContact]_vars

ReturnsUnwaited ==
    /\ contactDone' # contactDone
    /\ contactDone'.call.timeout <= 0
    /\ contactDone'.err = ""

\* C6: ContactInfoHex with timeout 0 (or less) and a well-formed hash requests no path
\* and waits for nothing: in one step it recalls the identity once and returns what the
\* cache holds, the empty info when the identity is unknown or has no app data.
C6_NoTimeoutNoNetwork ==
    [][ReturnsUnwaited =>
          LET id == identityCache[DecodeDestHex(contactDone'.call.destHex).bytes] IN
          /\ contactPc = "idle" /\ contactPc' = "idle"
          /\ contactDone'.call.recalls = 1
          /\ contactDone'.call.pathRequests = 0
          /\ contactDone'.info = IF id.known /\ id.appData.kind # "empty"
                                 THEN ContactInfoOf(id.appData) ELSE EmptyInfo
          /\ ~id.known => contactDone'.info = EmptyInfo
          /\ identityCache' = identityCache]_vars

\* a call with timeout 0 has returned the avatar metadata cached for the peer
C6_Witness ==
    /\ contactDone.call.called
    /\ contactDone.call.timeout = 0
    /\ contactDone.call.destHex = EncodeToString(PeerHash)
    /\ contactDone.info.HasAvatar
    /\ contactDone.info.Avatar.HashHex = EncodeToString(PeerFingerprint)
    /\ contactDone.call.recalls = 1
    /\ contactDone.call.pathRequests = 0

(***************************************************************************)
(* The avatar store: loadAvatarFromDisk at Start, SetAvatarImage,          *)
(* ClearAvatar, and the announce app data composed from the avatar fields. *)
(* SetAvatarImage and ClearAvatar write the fields one by one with no      *)
(* lock, so each write is a step.                                          *)
(***************************************************************************)
\* the latest second the model reaches
MaxUnix == 2

\* what Start may find in opts.Dir
BootDisks ==
    { [f \in AvatarFileNames |->
          CASE f = "avatar.bin" -> bin [] f = "avatar.mime" -> mime [] f = "avatar.png" -> png] :
      bin \in {NoFile, FileOf(<<>>, 1), FileOf(ImgA, 1), FileOf(Junk, 1)},
      mime \in {NoFile, FileOf(MimePNG \o <<"\n">>, 0), FileOf(<<" ">>, 0)},
      png \in {NoFile, FileOf(MagicPNG \o <<1>>, 1)} }

\* the node when Start is about to load the avatar
InitAvatarBoot ==
    /\ avatarFiles \in BootDisks
    /\ avPc = "boot"
    /\ AvatarUnset

\* a second passes
UnixTick ==
    /\ unixNow < MaxUnix
    /\ unixNow' = unixNow + 1
    /\ UNCHANGED <<engineVars, ctlVars, destVars, cfgVars, attachVars, identityCache, sendVars, contactVars, avatarVars,
                   fetchVars>>

(***************************************************************************)
(* The registry of announces (announce.go).  A map is a function whose      *)
(* domain is the set of its keys; AppDataLen, the length of the packed app  *)
(* data, is left out of the entry.                                          *)
(***************************************************************************)
\* announceDisplayName, lines 105-127: the first item when it is a string, or bytes
\* that are not empty
announceDisplayName(appData) ==
    IF appData.kind # "list" \/ Len(appData.items) = 0 THEN <<>>
    ELSE LET v == appData.items[1]
         IN  IF v.t \in {"bytes", "str"} THEN v.b ELSE <<>>

\* recordAnnounce, lines 64-74, under announceMu
recordAnnounce(entry) ==
    [k \in (DOMAIN announces) \cup {entry.DestinationHashHex} |->
        IF k = entry.DestinationHashHex THEN entry ELSE announces[k]]

\* announceLogger.ReceivedAnnounce, lines 36-47, on the transport's thread
ReceivedAnnounce(destinationHash, appData) ==
    LET entry == [DestinationHashHex |-> EncodeToString(destinationHash),
                  DisplayName |-> announceDisplayName(appData),
                  LastSeen |-> unixNow]
    IN  /\ annEntry' = entry
        /\ announces' = recordAnnounce(entry)
        /\ UNCHANGED <<snapshot, setEnabledDone, staleStamp>>
        /\ UNCHANGED <<engineVars, destVars, cfgVars, attachVars, identityCache, sendVars,
                       contactVars, unixNow, avatarVars, fetchVars>>

\* the entries come first in ascending order of last seen
Less_Ascending(a, b) == a.LastSeen < b.LastSeen

\* the less function of the sort, line 86
Less(a, b) == a.LastSeen > b.LastSeen

\* sort.Slice, lines 85-87: the sort is not stable, so it may return any order of the
\* slice in which no entry stands before one that is less than it
SortSlice(entries) ==
    { s \in [1..Len(entries) -> {entries[i] : i \in 1..Len(entries)}] :
        /\ \A e \in {entries[i] : i \in 1..Len(entries)} : \E i \in 1..Len(s) : s[i] = e
        /\ \A i, j \in 1..Len(s) : i < j => ~Less(s[j], s[i]) }

\* the orders in which a range over the map may visit its keys
RangeOrders(m) ==
    { o \in [1..Cardinality(DOMAIN m) -> DOMAIN m] :
        \A k \in DOMAIN m : \E i \in 1..Cardinality(DOMAIN m) : o[i] = k }

\* announceSnapshot, lines 76-90: the entries are copied under announceMu in the order
\* of the range and sorted after the unlock
announceSnapshot ==
    /\ \E o \in RangeOrders(announces) :
          LET entries == [i \in 1..Len(o) |-> announces[o[i]]]
          IN  snapshot' \in SortSlice(entries)
    /\ UNCHANGED <<announces, annEntry, setEnabledDone, staleStamp>>
    /\ UNCHANGED <<engineVars, destVars, cfgVars, attachVars, identityCache, sendVars,
                   contactVars, unixNow, avatarVars, fetchVars>>

\* the hashes whose announces arrive
RegHashes == {PeerHash, SelfHash}

\* announces arrive while the UI reads the registry
NextRegistry ==
    \/ UnixTick
    \/ \E h \in RegHashes, a \in {NameOnlyAppData, [kind |-> "empty", items |-> <<>>]} :
          ReceivedAnnounce(h, a)
    \/ announceSnapshot

SpecRegistry == InitNode /\ [][NextRegistry]_vars

\* readFileOrNil
readFileOrNil(file) == IF file.exists THEN file.data ELSE <<>>

\* Start, line 167: loadAvatarFromDisk, its error ignored
StartLoad ==
    LET bin == avatarFiles["avatar.bin"]
        legacy == avatarFiles["avatar.png"]
        src == IF bin.exists THEN bin ELSE legacy
        mime == TrimSpace(readFileOrNil(avatarFiles["avatar.mime"]))
    IN  /\ avPc = "boot"
        /\ avPc' = "idle"
        /\ IF ~bin.exists /\ ~legacy.exists
           THEN UNCHANGED <<avatarPNG, avatarHash, avatarMTime, avatarMime>>
           ELSE /\ avatarPNG' = src.data
                /\ avatarHash' = SumPrefix(Sum256(src.data))
                /\ avatarMTime' = src.mtime
                /\ avatarMime' = IF mime = <<>> THEN detectAvatarMime(src.data) ELSE mime
        /\ UNCHANGED <<engineVars, ctlVars, destVars, cfgVars, attachVars, identityCache, sendVars, contactVars, unixNow,
                       fetchVars,
                       avatarFiles, avArgs, avReturn>>

\* the avatar API call returns
AvatarReturn(op, err) ==
    /\ avReturn' = [op |-> op, err |-> err]
    /\ avArgs' = [mime |-> <<>>, data |-> <<>>]
    /\ avPc' = "idle"

\* lines 928-943: the checks, and the first field written
SetAvatarImage(mime, data) ==
    LET trimmed == TrimSpace(mime)
        m == IF trimmed = <<>> THEN detectAvatarMime(data) ELSE trimmed
    IN  /\ avPc = "idle"
        /\ IF Len(data) = 0
           THEN AvatarReturn("set", "empty avatar") /\ UNCHANGED avatarPNG
           ELSE IF m = <<>>
           THEN AvatarReturn("set", "unknown avatar mime") /\ UNCHANGED avatarPNG
           ELSE /\ avatarPNG' = data
                /\ avArgs' = [mime |-> m, data |-> data]
                /\ avPc' = "set_hash"
                /\ UNCHANGED avReturn
        /\ UNCHANGED <<engineVars, ctlVars, destVars, cfgVars, attachVars, identityCache, sendVars, contactVars, unixNow,
                       fetchVars,
                       avatarFiles, avatarHash, avatarMTime, avatarMime>>

\* lines 944-946: the other three fields
SetAvatarField ==
    /\ avPc \in {"set_hash", "set_mtime", "set_mime"}
    /\ avatarHash' = IF avPc = "set_hash" THEN SumPrefix(Sum256(avArgs.data)) ELSE avatarHash
    /\ avatarMTime' = IF avPc = "set_mtime" THEN unixNow ELSE avatarMTime
    /\ avatarMime' = IF avPc = "set_mime" THEN avArgs.mime ELSE avatarMime
    /\ avPc' = CASE avPc = "set_hash" -> "set_mtime"
                 [] avPc = "set_mtime" -> "set_mime"
                 [] avPc = "set_mime" -> "save_bin"
    /\ UNCHANGED <<engineVars, ctlVars, destVars, cfgVars, attachVars, identityCache, sendVars, contactVars, unixNow,
                   fetchVars,
                   avatarFiles, avatarPNG, avArgs, avReturn>>

\* saveAvatarToDisk, lines 1030-1035: avatar.bin is written from the field
SaveAvatarBin(outcome) ==
    /\ avPc = "save_bin"
    /\ IF Len(avatarPNG) = 0
       THEN AvatarReturn("set", "") /\ UNCHANGED avatarFiles
       ELSE /\ avatarFiles' = [avatarFiles EXCEPT
                                  !["avatar.bin"] = WriteFile(@, avatarPNG, outcome)]
            /\ IF outcome = "ok"
               THEN avPc' = "save_mime" /\ UNCHANGED <<avReturn, avArgs>>
               ELSE AvatarReturn("set", "write avatar")
    /\ UNCHANGED <<engineVars, ctlVars, destVars, cfgVars, attachVars, identityCache, sendVars, contactVars, unixNow,
                   fetchVars,
                   avatarPNG, avatarHash, avatarMTime, avatarMime>>

\* saveAvatarToDisk, lines 1036-1039: avatar.mime, best effort
SaveAvatarMime(outcome) ==
    /\ avPc = "save_mime"
    /\ avatarFiles' = IF avatarMime # <<>>
                      THEN [avatarFiles EXCEPT
                               !["avatar.mime"] = WriteText(@, avatarMime, outcome)]
                      ELSE avatarFiles
    /\ AvatarReturn("set", "")
    /\ UNCHANGED <<engineVars, ctlVars, destVars, cfgVars, attachVars, identityCache, sendVars, contactVars, unixNow,
                   fetchVars,
                   avatarPNG, avatarHash, avatarMTime, avatarMime>>

\* ClearAvatar, line 955: the first field cleared
ClearAvatar ==
    /\ avPc = "idle"
    /\ avatarPNG' = <<>>
    /\ avPc' = "clr_hash"
    /\ UNCHANGED <<engineVars, ctlVars, destVars, cfgVars, attachVars, identityCache, sendVars, contactVars, unixNow,
                   fetchVars,
                   avatarFiles, avatarHash, avatarMTime, avatarMime, avArgs, avReturn>>

\* lines 956-958: the other three fields
ClearAvatarField ==
    /\ avPc \in {"clr_hash", "clr_mtime", "clr_mime"}
    /\ avatarHash' = IF avPc = "clr_hash" THEN <<>> ELSE avatarHash
    /\ avatarMTime' = IF avPc = "clr_mtime" THEN 0 ELSE avatarMTime
    /\ avatarMime' = IF avPc = "clr_mime" THEN <<>> ELSE avatarMime
    /\ avPc' = CASE avPc = "clr_hash" -> "clr_mtime"
                 [] avPc = "clr_mtime" -> "clr_mime"
                 [] avPc = "clr_mime" -> "remove"
    /\ UNCHANGED <<engineVars, ctlVars, destVars, cfgVars, attachVars, identityCache, sendVars, contactVars, unixNow,
                   fetchVars,
                   avatarFiles, avatarPNG, avArgs, avReturn>>

\* lines 959-961: both files are removed, errors ignored
RemoveAvatarFiles(binRemoved, mimeRemoved) ==
    /\ avPc = "remove"
    /\ avatarFiles' = [avatarFiles EXCEPT !["avatar.bin"] = IF binRemoved THEN NoFile ELSE @,
                                          !["avatar.mime"] = IF mimeRemoved THEN NoFile ELSE @]
    /\ AvatarReturn("clear", "")
    /\ UNCHANGED <<engineVars, ctlVars, destVars, cfgVars, attachVars, identityCache, sendVars, contactVars, unixNow,
                   fetchVars,
                   avatarPNG, avatarHash, avatarMTime, avatarMime>>

\* announceAppData: name, no stamp cost, and the avatar map when there is a fingerprint
announceAppData ==
    Packb(<<Item(Val("bytes", <<"m", "e">>, 0), NoMap),
            Item(NilVal, NoMap),
            IF Len(avatarHash) > 0
            THEN Item(Val("map", <<>>, 0),
                      [k \in AvatarKeys |->
                          CASE k = "h" -> Val("bytes", avatarHash, 0)
                            [] k = "t" -> Val("str", IF avatarMime = <<>> THEN MimePNG
                                                     ELSE avatarMime, 0)
                            [] k = "s" -> Val("int", <<>>, Len(avatarPNG))
                            [] k = "u" -> Val("int64", <<>>, avatarMTime)])
            ELSE Item(NilVal, NoMap)>>)

NextAvatar ==
    \/ UnixTick
    \/ StartLoad
    \/ \E m \in {<<>>, <<" ">>, MimeHEIC}, d \in {<<>>, ImgA, ImgB, Junk} :
          SetAvatarImage(m, d)
    \/ SetAvatarField
    \/ \E o \in WriteOutcomes : SaveAvatarBin(o)
    \/ \E o \in WriteOutcomes : SaveAvatarMime(o)
    \/ ClearAvatar
    \/ ClearAvatarField
    \/ \E b, m \in BOOLEAN : RemoveAvatarFiles(b, m)

InitAvatar ==
    InitEngine /\ InitApp /\ InitAvatarBoot /\ InitFetch /\ InitAttach /\ InitFx /\ InitDest
    /\ InitConfig /\ InitCtl

SpecAvatar == InitAvatar /\ [][NextAvatar]_vars

(***************************************************************************)
(* The /avatar request handler of this node and the peer's fetch of the    *)
(* avatar, fetchAvatarViaDestination, from the request on.                 *)
(***************************************************************************)
B64 == <<"A", "B", "C", "D", "E", "F", "G", "H", "I", "J", "K", "L", "M", "N", "O", "P",
         "Q", "R", "S", "T", "U", "V", "W", "X", "Y", "Z", "a", "b", "c", "d", "e", "f",
         "g", "h", "i", "j", "k", "l", "m", "n", "o", "p", "q", "r", "s", "t", "u", "v",
         "w", "x", "y", "z", "0", "1", "2", "3", "4", "5", "6", "7", "8", "9", "+", "/">>

\* base64.StdEncoding.EncodeToString
Base64Encode(b) ==
    LET n == Len(b)
        byte(i) == IF i <= n THEN b[i] ELSE 0
        group(g) == byte(3 * g - 2) * 65536 + byte(3 * g - 1) * 256 + byte(3 * g)
        sextet(g, j) == CASE j = 1 -> group(g) \div 262144
                          [] j = 2 -> (group(g) \div 4096) % 64
                          [] j = 3 -> (group(g) \div 64) % 64
                          [] j = 4 -> group(g) % 64
        char(g, j) == IF (j = 3 /\ 3 * g - 1 > n) \/ (j = 4 /\ 3 * g > n) THEN "="
                      ELSE B64[sextet(g, j) + 1]
    IN  [i \in 1..(4 * ((n + 2) \div 3)) |-> char((i + 3) \div 4, ((i - 1) % 4) + 1)]

\* the fingerprint texts a fetching peer may pass as known: none, that of an image, the
\* same in upper case, that of no bytes at all, and a text that is no hex
KnownHexInputs ==
    { <<>>,
      EncodeToString(SumPrefix(Sum256(ImgA))),
      ToUpper(EncodeToString(SumPrefix(Sum256(ImgA)))),
      EncodeToString(SumPrefix(Sum256(<<>>))),
      <<"z", "z">> }

\* hex.DecodeString of each of these texts, computed once
KnownHexDecoded == [s \in KnownHexInputs |-> DecodeString(s)]

\* part_000:168-251: the link is up; the request carries the known fingerprint when the
\* text decodes to at least one byte
FetchAvatarStart(knownHex) ==
    LET dec == KnownHexDecoded[knownHex] IN
    /\ fetchPc = "idle"
    /\ avPc # "boot"
    /\ avRequest' = [sent |-> TRUE, h |-> IF dec.ok THEN dec.bytes ELSE <<>>]
    /\ fetchPc' = "wait"
    /\ fetchLocals' = [respHash |-> <<>>, respMime |-> <<>>]
    /\ UNCHANGED <<engineVars, ctlVars, destVars, cfgVars, attachVars, identityCache, sendVars, contactVars, unixNow,
                   avatarVars, avResponse, avResource, fetchDone>>

\* part_000:56-107: the handler of the /avatar request
AvatarRequestHandler(linkFound, resourceOk) ==
    LET knownHash == avRequest.h
        hash == avatarHash
        avatarData == avatarPNG
        mime == IF avatarMime = <<>> THEN detectAvatarMime(avatarData) ELSE avatarMime
        base == [NoReply EXCEPT !.sent = TRUE, !.known = knownHash, !.current = avatarHash,
                                !.atRest = (avPc = "idle")]
        full == [base EXCEPT !.ok = TRUE, !.h = hash, !.t = mime, !.s = Len(avatarData),
                             !.u = avatarMTime]
    IN  /\ avRequest.sent
        /\ avRequest' = [sent |-> FALSE, h |-> <<>>]
        /\ IF Len(hash) = 0 \/ Len(avatarData) = 0
           THEN avResponse' = base /\ UNCHANGED avResource
           ELSE IF Len(knownHash) > 0 /\ knownHash = hash
           THEN avResponse' = [full EXCEPT !.unchanged = TRUE] /\ UNCHANGED avResource
           ELSE IF ~linkFound
           THEN avResponse' = [base EXCEPT !.error = "link not found"]
                /\ UNCHANGED avResource
           ELSE IF ~resourceOk
           THEN avResponse' = [base EXCEPT !.error = "resource send failed"]
                /\ UNCHANGED avResource
           ELSE /\ avResponse' = [full EXCEPT !.resource = TRUE]
                /\ avResource' = [sent |-> TRUE, data |-> avatarData, kind |-> "avatar",
                                  h |-> hash, t |-> mime]
        /\ UNCHANGED <<engineVars, ctlVars, destVars, cfgVars, attachVars, identityCache, sendVars, contactVars, unixNow,
                       avatarVars, fetchPc, fetchLocals, fetchDone>>

\* the fetch returns; the deferred link.Teardown drops what is still on its way
FetchReturn(out) ==
    /\ fetchDone' = out
    /\ fetchPc' = "idle"
    /\ fetchLocals' = [respHash |-> <<>>, respMime |-> <<>>]
    /\ avRequest' = [sent |-> FALSE, h |-> <<>>]
    /\ avResponse' = NoReply
    /\ avResource' = [sent |-> FALSE, data |-> <<>>, kind |-> "", h |-> <<>>, t |-> <<>>]

\* part_000:259-282: the response arrives
FetchOnResponse ==
    LET v == avResponse
        got == [NoFetch EXCEPT !.done = TRUE, !.reply = v]
    IN  /\ fetchPc = "wait"
        /\ v.sent
        /\ IF ~v.ok
           THEN FetchReturn([got EXCEPT !.NotPresent = TRUE])
           ELSE IF v.unchanged
           THEN FetchReturn([got EXCEPT !.HashHex = EncodeToString(v.h), !.Mime = v.t,
                                        !.Unchanged = TRUE])
           ELSE /\ fetchLocals' = [respHash |-> v.h, respMime |-> v.t]
                /\ avResponse' = NoReply
                /\ UNCHANGED <<avRequest, avResource, fetchPc, fetchDone>>
        /\ UNCHANGED <<engineVars, ctlVars, destVars, cfgVars, attachVars, identityCache, sendVars, contactVars, unixNow,
                       avatarVars>>

\* part_000:292-325: the resource is concluded, complete or not
FetchOnResource(complete) ==
    LET res == avResource
        got == [NoFetch EXCEPT !.done = TRUE]
        hash == IF Len(res.h) > 0 THEN res.h ELSE fetchLocals.respHash
        mime == IF res.t # <<>> THEN res.t ELSE fetchLocals.respMime
    IN  /\ fetchPc = "wait"
        /\ res.sent
        /\ IF ~complete
           THEN FetchReturn([got EXCEPT !.err = "avatar resource failed"])
           ELSE IF res.kind # "" /\ res.kind # "avatar"
           THEN FetchReturn([got EXCEPT !.err = "unexpected avatar resource kind"])
           ELSE FetchReturn([got EXCEPT !.HashHex = EncodeToString(hash), !.Mime = mime,
                                        !.DataBase64 = IF Len(res.data) > 0
                                                       THEN Base64Encode(res.data)
                                                       ELSE <<>>])
        /\ UNCHANGED <<engineVars, ctlVars, destVars, cfgVars, attachVars, identityCache, sendVars, contactVars, unixNow,
                       avatarVars>>

\* part_000:326-331: the request fails or the deadline passes
FetchFails(err) ==
    /\ fetchPc = "wait"
    /\ FetchReturn([NoFetch EXCEPT !.done = TRUE, !.err = err])
    /\ UNCHANGED <<engineVars, ctlVars, destVars, cfgVars, attachVars, identityCache, sendVars, contactVars, unixNow,
                   avatarVars>>

(***************************************************************************)
(* The outgoing attachment store: StoreOutgoingAttachment and              *)
(* loadOutgoingAttachmentByHashHex over attachments/out.                   *)
(***************************************************************************)
\* filepath.Base
RECURSIVE StripSlashes(_)
StripSlashes(s) ==
    IF s # <<>> /\ s[Len(s)] = "/" THEN StripSlashes(SubSeq(s, 1, Len(s) - 1)) ELSE s
RECURSIVE AfterLastSlash(_)
AfterLastSlash(s) ==
    IF \E i \in 1..Len(s) : s[i] = "/" THEN AfterLastSlash(Tail(s)) ELSE s
Base(path) ==
    IF path = <<>> THEN <<".">>
    ELSE IF StripSlashes(path) = <<>> THEN <<"/">>
    ELSE AfterLastSlash(StripSlashes(path))

\* the strings.Map of sanitizeAttachmentName: separators become '-', control
\* characters are dropped
RECURSIVE MapName(_)
MapName(s) ==
    IF s = <<>> THEN <<>>
    ELSE IF Head(s) \in {"/", "\\", ":"} THEN <<"-">> \o MapName(Tail(s))
    ELSE IF Head(s) \in {"\t", "\n", "\r"} THEN MapName(Tail(s))
    ELSE <<Head(s)>> \o MapName(Tail(s))

sanitizeAttachmentName(name) ==
    IF TrimSpace(name) = <<>> THEN <<>>
    ELSE LET mapped == TrimSpace(MapName(Base(TrimSpace(name)))) IN
         IF Len(mapped) > 180 THEN SubSeq(mapped, 1, 180) ELSE mapped

\* what a caller may pass as mime and name: neither, or both
AttachMetaInputs ==
    { [mime |-> <<>>, name |-> <<>>],
      [mime |-> MimeJPEG \o <<" ">>, name |-> <<" ", "d", "/", "a", ":", "\t", "b", " ">>] }

\* a store that writes the .bin whether it exists or not
NeedsWrite_Always(file) == TRUE

\* line 105: os.Stat says the file does not exist
NeedsWrite(file) == ~file.exists

\* StoreOutgoingAttachment(data, mime, name); mkdirOk is whether os.MkdirAll succeeds,
\* the outcomes are those of the os.WriteFile calls that are made
StoreOutgoingAttachment(data, mime, name, mkdirOk, binOutcome, mimeOutcome, nameOutcome) ==
    LET hashHex == AttachHashHex[data]
        old == outFiles[hashHex]
        writes == NeedsWrite(old.bin)
        bin == IF writes THEN WriteFile(old.bin, data, binOutcome) ELSE old.bin
        failed == writes /\ binOutcome # "ok"
        m == TrimSpace(mime)
        nm == sanitizeAttachmentName(name)
        call == [NoStore EXCEPT !.called = TRUE, !.data = data,
                                !.again = (data \in lastStore.stored),
                                !.stored = lastStore.stored]
        done == [call EXCEPT !.wroteBin = writes, !.binKept = (bin = old.bin),
                             !.binsAdded = IF bin.exists /\ ~old.bin.exists THEN 1 ELSE 0]
    IN  \* the outcome of a call that is not made is not an input
        /\ (Len(data) = 0 \/ ~mkdirOk \/ ~writes) => binOutcome = "ok"
        /\ (Len(data) = 0 \/ ~mkdirOk \/ failed \/ m = <<>>) => mimeOutcome = "ok"
        /\ (Len(data) = 0 \/ ~mkdirOk \/ failed \/ nm = <<>>) => nameOutcome = "ok"
        /\ Len(data) = 0 => mkdirOk
        /\ IF Len(data) = 0
           THEN lastStore' = [call EXCEPT !.err = "empty attachment"]
                /\ UNCHANGED outFiles
           ELSE IF ~mkdirOk
           THEN lastStore' = [call EXCEPT !.err = "create out dir"] /\ UNCHANGED outFiles
           ELSE IF failed
           THEN /\ lastStore' = [done EXCEPT !.err = "write attachment"]
                /\ outFiles' = [outFiles EXCEPT ![hashHex].bin = bin]
           ELSE /\ outFiles' = [outFiles EXCEPT ![hashHex] =
                     [bin |-> bin,
                      mime |-> IF m # <<>> THEN WriteText(old.mime, m, mimeOutcome)
                               ELSE old.mime,
                      name |-> IF nm # <<>> THEN WriteText(old.name, nm, nameOutcome)
                               ELSE old.name]]
                /\ lastStore' = [done EXCEPT
                     !.stored = @ \cup {data},
                     !.info = [HashHex |-> hashHex, Mime |-> m, Name |-> nm,
                               Size |-> Len(data),
                               Updated |-> IF bin.exists THEN bin.mtime ELSE 0]]
        /\ UNCHANGED <<engineVars, ctlVars, destVars, cfgVars, identityCache, sendVars, contactVars, unixNow,
                       avatarVars, fetchVars, fxVars>>

\* the hash texts a caller may pass to the load: each stem as it is, in upper case with
\* spaces around it, and the empty text
LoadHexInputs ==
    OutStems \cup {<<" ">> \o ToUpper(h) \o <<"\n">> : h \in OutStems} \cup {<<>>}

\* strings.ToLower(strings.TrimSpace(hashHex)) of each of them, computed once
LoadHexNormal == [s \in LoadHexInputs |-> ToLower(TrimSpace(s))]

\* loadOutgoingAttachmentByHashHex(hashHex): the error, the bytes and the info it
\* returns; it changes nothing
loadOutgoingAttachmentByHashHex(hashHex) ==
    LET h == LoadHexNormal[hashHex] IN
    IF h = <<>> THEN [NoLoad EXCEPT !.err = "empty hash"]
    ELSE IF h \notin OutStems \/ ~outFiles[h].bin.exists
    THEN [NoLoad EXCEPT !.err = "not exist"]
    ELSE [NoLoad EXCEPT
             !.bytes = outFiles[h].bin.data,
             !.info = [HashHex |-> h,
                       Mime |-> TrimSpace(readFileOrNil(outFiles[h].mime)),
                       Name |-> TrimSpace(readFileOrNil(outFiles[h].name)),
                       Size |-> Len(outFiles[h].bin.data),
                       Updated |-> outFiles[h].bin.mtime]]

(***************************************************************************)
(* The fetch from a contact, from the call to its return.                  *)
(***************************************************************************)
\* a call that keeps the timeout it was given
EffectiveTimeout_AsGiven(kind, timeout) == timeout

\* part_000:128-130 and part_001:219-221: a timeout of zero or less becomes the default
EffectiveTimeout(kind, timeout) ==
    IF timeout <= 0
    THEN IF kind = "avatar" THEN AvatarDefaultTimeout ELSE AttachDefaultTimeout
    ELSE timeout

\* a fetch that never finds its cache
CacheHit_Never(file) == FALSE

\* part_001:229: os.Stat finds the file and it is not empty
CacheHit(file) == file.exists /\ Len(file.data) > 0

\* the files of attachments/in/<remote>/<hash>.*; the one attachment a peer has is the
\* only one a fetch can store
InFilesAt(remote, hashHex) ==
    IF remote \in InDirs /\ hashHex = AttachHashHex[<<1, 2, 3>>] THEN inFiles[remote]
    ELSE [bin |-> NoFile, mime |-> NoFile, name |-> NoFile]

\* the call returns
FxReturn(out) ==
    /\ fxDone' = [out EXCEPT !.done = TRUE, !.call.pc = "idle", !.call.idLeft = NoTime,
                             !.call.pathLeft = NoTime, !.call.linkLeft = NoTime]
    /\ fx' = NoFx

\* the error of the first destination is returned at once
FxFail_StopsAtFirst(call, err) == FxReturn([NoFxDone EXCEPT !.call = call, !.err = err])

\* fetch...ViaDestination returns an error: the next destination is tried, and after
\* the last the error is returned (part_000:149-164, part_001:267-281)
FxFail(call, err) ==
    IF call.dest = 1
    THEN /\ fx' = [call EXCEPT !.pc = "dest", !.dest = 2, !.pathLeft = NoTime,
                               !.linkLeft = NoTime, !.respHash = <<>>, !.respMime = <<>>,
                               !.respName = <<>>, !.gotMap = FALSE]
         /\ UNCHANGED fxDone
    ELSE FxReturn([NoFxDone EXCEPT !.call = call, !.err = err])

\* ContactAvatarDataBase64Hex (part_000:124-136) and ContactAttachmentPathHex
\* (part_001:215-256) up to the loop of WaitForIdentityHex (node.go:1070-1092)
FxCall(kind, destinationHashHex, hashHexArg, timeout) ==
    LET t == EffectiveTimeout(kind, timeout)
        remote == IF kind = "avatar" THEN destinationHashHex
                  ELSE FxNormal[destinationHashHex]
        hashHex == IF kind = "avatar" THEN hashHexArg ELSE FxNormal[hashHexArg]
        call == [NoFx EXCEPT !.kind = kind, !.remote = remote, !.hashHex = hashHex,
                             !.timeout = t]
        out == [NoFxDone EXCEPT !.call = call]
        files == InFilesAt(remote, hashHex)
        self == loadOutgoingAttachmentByHashHex(
                    IF hashHex \in LoadHexInputs THEN hashHex ELSE <<>>)
        dec == FxDecoded[remote]
        known == IdentityRecall(dec.bytes).known
    IN  /\ fx.pc = "idle"
        /\ IF kind = "attachment" /\ (remote = <<>> \/ hashHex = <<>>)
           THEN FxReturn([out EXCEPT !.err = "missing params"])
           ELSE IF kind = "attachment" /\ CacheHit(files.bin)
           THEN FxReturn([out EXCEPT !.HashHex = hashHex,
                                     !.Path = <<"in", remote, hashHex>>,
                                     !.Data = files.bin.data,
                                     !.Mime = TrimSpace(readFileOrNil(files.mime)),
                                     !.Name = TrimSpace(readFileOrNil(files.name)),
                                     !.Size = Len(files.bin.data), !.via = "cache"])
           ELSE IF kind = "attachment" /\ ToLower(remote) = EncodeToString(SelfHash)
                   /\ self.err = ""
           THEN FxReturn([out EXCEPT !.HashHex = hashHex, !.Path = <<"out", hashHex>>,
                                     !.Data = self.bytes, !.Mime = self.info.Mime,
                                     !.Name = self.info.Name, !.Size = self.info.Size,
                                     !.via = "self"])
           ELSE IF kind = "attachment"
                   /\ (~FxDecoded[hashHex].ok \/ FxDecoded[hashHex].bytes = <<>>)
           THEN FxReturn([out EXCEPT !.err = "invalid attachment hash"])
           ELSE IF ~dec.ok
           THEN FxReturn([out EXCEPT !.call.idWaits = 1,
                                     !.err = "decode destination hash"])
           ELSE IF Len(dec.bytes) # DestinationLength
           THEN FxReturn([out EXCEPT !.call.idWaits = 1,
                                     !.err = "invalid destination hash length"])
           ELSE IF IsSelf(dec.bytes)
           THEN /\ fx' = [call EXCEPT !.pc = "dest", !.dest = 1, !.idWaits = 1]
                /\ fxDone' = NoFxDone
           ELSE /\ fx' = [call EXCEPT !.pc = "idwait", !.idWaits = 1,
                                      !.pathReqs = IF known THEN 0 ELSE 1,
                                      !.idLeft = IF t > 0 THEN t ELSE NoTime]
                /\ fxDone' = NoFxDone
        /\ UNCHANGED <<inFiles, link, cbBlocked, hasPath>>
        /\ UNCHANGED <<engineVars, ctlVars, destVars, cfgVars, outFiles, lastStore, identityCache, sendVars,
                       contactVars, unixNow, avatarVars, fetchVars>>

\* node.go:1094-1102: one round of the loop; the sleep of 100 ms is the time that passes
\* until the next round finds something new
IdentityWait ==
    /\ fx.pc = "idwait"
    /\ IF IdentityRecall(FxDecoded[fx.remote].bytes).known
       THEN /\ fx' = [fx EXCEPT !.pc = "dest", !.dest = 1, !.idLeft = NoTime]
            /\ UNCHANGED fxDone
       ELSE /\ fx.timeout > 0
            /\ fx.idLeft = PastDue
            /\ FxReturn([NoFxDone EXCEPT !.call = fx,
                                         !.err = "timeout waiting for destination identity"])
    /\ UNCHANGED <<inFiles, link, cbBlocked, hasPath>>
    /\ UNCHANGED <<engineVars, ctlVars, destVars, cfgVars, outFiles, lastStore, identityCache, sendVars,
                   contactVars, unixNow, avatarVars, fetchVars>>

\* part_000:155-160 and 168-186, part_001:272-277: the outbound destination of the next
\* candidate; the avatar fetch asks for a path it does not have and waits for it
DestTry(destOk) ==
    /\ fx.pc = "dest"
    /\ IF ~destOk
       THEN FxFail(fx, "create outbound destination")
       ELSE /\ fx' = IF fx.kind = "avatar" /\ ~hasPath
                     THEN [fx EXCEPT !.pc = "pathwait", !.pathReqs = @ + 1,
                                     !.pathLeft = IF fx.timeout <= 0 \/ fx.timeout >= PathWaitCap
                                                  THEN PathWaitCap ELSE fx.timeout]
                     ELSE [fx EXCEPT !.pc = "link"]
            /\ UNCHANGED fxDone
    /\ UNCHANGED <<inFiles, link, cbBlocked, hasPath>>
    /\ UNCHANGED <<engineVars, ctlVars, destVars, cfgVars, outFiles, lastStore, identityCache, sendVars,
                   contactVars, unixNow, avatarVars, fetchVars>>

\* part_000:181-186: the wait ends with the path or with its deadline
PathWait ==
    /\ fx.pc = "pathwait"
    /\ hasPath \/ fx.pathLeft = PastDue
    /\ fx' = [fx EXCEPT !.pc = "link", !.pathLeft = NoTime]
    /\ UNCHANGED <<inFiles, fxDone, link, cbBlocked, hasPath>>
    /\ UNCHANGED <<engineVars, ctlVars, destVars, cfgVars, outFiles, lastStore, identityCache, sendVars,
                   contactVars, unixNow, avatarVars, fetchVars>>

\* the link is opened and no timer is started for it
OpenLink_NoTimer(ok) ==
    /\ fx.pc = "link"
    /\ IF ~ok
       THEN FxFail(fx, "open link") /\ UNCHANGED <<link, cbBlocked>>
       ELSE /\ fx' = [fx EXCEPT !.pc = "estab", !.links = @ + 1]
            /\ link' = [NoLink EXCEPT !.open = TRUE]
            /\ cbBlocked' = IF cbBlocked = "" THEN "" ELSE "stuck"
            /\ UNCHANGED fxDone
    /\ UNCHANGED <<inFiles, hasPath>>
    /\ UNCHANGED <<engineVars, ctlVars, destVars, cfgVars, outFiles, lastStore, identityCache, sendVars,
                   contactVars, unixNow, avatarVars, fetchVars>>

\* part_000:187-208, part_001:294-314: rns.NewOutgoingLink with the two link callbacks
\* over fresh channels, and the timer of the whole fetch
OpenLink(ok) ==
    /\ fx.pc = "link"
    /\ IF ~ok
       THEN FxFail(fx, "open link") /\ UNCHANGED <<link, cbBlocked>>
       ELSE /\ fx' = [fx EXCEPT !.pc = "estab", !.links = @ + 1,
                                !.linkLeft = IF fx.timeout > 0 THEN fx.timeout
                                             ELSE PastDue]
            /\ link' = [NoLink EXCEPT !.open = TRUE]
            /\ cbBlocked' = IF cbBlocked = "" THEN "" ELSE "stuck"
            /\ UNCHANGED fxDone
    /\ UNCHANGED <<inFiles, hasPath>>
    /\ UNCHANGED <<engineVars, ctlVars, destVars, cfgVars, outFiles, lastStore, identityCache, sendVars,
                   contactVars, unixNow, avatarVars, fetchVars>>

\* part_000:209-251, part_001:315-347: the first select takes a case that is ready;
\* once the link is up the request is sent with its callbacks, and the peer decides what
\* it will answer
Establish(case, sent, peer) ==
    /\ fx.pc = "estab"
    /\ CASE case = "established" -> link.established
         [] case = "closed" -> link.closed
         [] case = "deadline" -> fx.linkLeft = PastDue
    \* what is not reached is not an input
    /\ case = "established" \/ sent
    /\ (case = "established" /\ sent) \/ peer = NoLink.peer
    /\ IF case = "closed" THEN FxFail(fx, "link closed before establishment")
       ELSE IF case = "deadline" THEN FxFail(fx, "timeout establishing link")
       ELSE IF ~sent THEN FxFail(fx, "failed to send request")
       ELSE /\ fx' = [fx EXCEPT !.pc = "loop", !.requests = @ + 1]
            /\ UNCHANGED fxDone
    /\ link' = IF case = "established" /\ sent
               THEN [link EXCEPT !.requested = TRUE, !.peer = peer]
               ELSE link
    /\ UNCHANGED <<inFiles, cbBlocked, hasPath>>
    /\ UNCHANGED <<engineVars, ctlVars, destVars, cfgVars, outFiles, lastStore, identityCache, sendVars,
                   contactVars, unixNow, avatarVars, fetchVars>>

\* the fetch returns as soon as a map with ok = true arrives
ReturnsOnMap_Always(kind, v) == TRUE

\* part_000:268-282: a map with ok = true ends the avatar fetch when it says unchanged;
\* the attachment fetch (part_001:363-368) does not look at that key
ReturnsOnMap(kind, v) == kind = "avatar" /\ v = "unchanged"

\* part_000:257-333, part_001:354-438: one round of the loop: the select takes a case
\* that is ready.  A sender that waits on the channel received from completes its send.
\* io is the outcome of the file work of the attachment fetch, mo and no of its sidecars.
FetchLoop(case, io, mo, no) ==
    LET v == Head(link.respCh)
        att == fx.kind = "attachment"
        out == [NoFxDone EXCEPT !.call = fx, !.peer = link.peer]
        data == <<1, 2, 3>>
        hashHex == IF att THEN EncodeToString(FxDecoded[fx.hashHex].bytes) ELSE <<>>
        dir == FxNormal[fx.remote]
        path == <<"in", dir, hashHex>>
        old == InFilesAt(dir, hashHex)
        \* what the peer's handler puts into the response and into the metadata of the
        \* resource (part_000:93-106, part_001:196-207)
        meta == [h |-> PeerFingerprint, t |-> MimePNG, n |-> <<"a", "/", "b">>]
        \* the metadata of the resource win over those of the response when not empty
        hash == IF meta.h # <<>> THEN meta.h ELSE fx.respHash
        mime == IF meta.t # <<>> THEN meta.t ELSE fx.respMime
        name == sanitizeAttachmentName(IF meta.n # <<>> THEN meta.n ELSE fx.respName)
        bin == WriteFile(old.bin, data, io)
        stored(files) == IF dir \in InDirs THEN [inFiles EXCEPT ![dir] = files] ELSE inFiles
        failed(err) == FxFail(fx, err) /\ UNCHANGED inFiles
    IN  /\ fx.pc = "loop"
        /\ CASE case = "response" -> link.respCh # <<>>
             [] case = "resource" -> link.resCh # <<>>
             [] case = "failed" -> link.failCh # <<>>
             [] case = "deadline" -> fx.linkLeft = PastDue
        \* what is not reached is not an input
        /\ io = "ok" \/ (att /\ (case = "resource" \/ (case = "response" /\ v = "raw")))
           \/ (~att /\ case = "resource" /\ io = "source failed")
        /\ (mo = "ok" /\ no = "ok") \/ (att /\ case = "resource" /\ io = "ok")
        /\ link' = CASE case = "response" ->
                          [link EXCEPT !.respCh = IF cbBlocked = "response"
                                                  THEN <<link.peer.map>> ELSE <<>>]
                     [] case = "resource" -> [link EXCEPT !.resCh = <<>>]
                     [] case = "failed" ->
                          [link EXCEPT !.failCh = IF cbBlocked = "failed"
                                                  THEN <<"failed">> ELSE <<>>]
                     [] case = "deadline" -> link
        /\ cbBlocked' = IF cbBlocked = case THEN "" ELSE cbBlocked
        /\ CASE case = "response" /\ v = "notok" ->
                  /\ FxReturn([out EXCEPT !.NotPresent = TRUE, !.HashHex = hashHex,
                                          !.via = "response"])
                  /\ UNCHANGED inFiles
             [] case = "response" /\ v \in {"ok", "unchanged"}
                  /\ ReturnsOnMap(fx.kind, v) ->
                  /\ FxReturn([out EXCEPT !.HashHex = EncodeToString(meta.h),
                                          !.Mime = meta.t, !.Unchanged = v = "unchanged",
                                          !.via = "response"])
                  /\ UNCHANGED inFiles
             [] case = "response" /\ v \in {"ok", "unchanged"}
                  /\ ~ReturnsOnMap(fx.kind, v) ->
                  /\ fx' = [fx EXCEPT !.gotMap = TRUE, !.respMime = meta.t,
                                      !.respHash = IF att THEN <<>> ELSE meta.h,
                                      !.respName = IF att THEN meta.n ELSE <<>>]
                  /\ UNCHANGED <<fxDone, inFiles>>
             [] case = "response" /\ v = "raw" /\ ~att ->
                  /\ FxReturn([out EXCEPT !.Data = data, !.DataBase64 = Base64Encode(data),
                                          !.via = "response"])
                  /\ UNCHANGED inFiles
             [] case = "response" /\ v = "raw" /\ att ->
                  IF io = "mkdir failed" THEN failed("mkdir")
                  ELSE /\ io \in WriteOutcomes
                       /\ inFiles' = stored([old EXCEPT !.bin = bin])
                       /\ IF io = "ok"
                          THEN FxReturn([out EXCEPT !.HashHex = hashHex, !.Path = path,
                                                    !.Data = data, !.Mime = fx.respMime,
                                                    !.Name = fx.respName,
                                                    !.Size = Len(data), !.via = "response"])
                          ELSE FxFail(fx, "write attachment cache")
             [] case = "response" /\ v = "nil" -> failed("unexpected response type")
             [] case = "resource" /\ Head(link.resCh) # "complete" ->
                  /\ io = "ok"
                  /\ failed("resource failed")
             [] case = "resource" /\ Head(link.resCh) = "complete" /\ ~att ->
                  IF io = "source failed" THEN failed("read avatar resource")
                  ELSE /\ io = "ok"
                       /\ FxReturn([out EXCEPT !.HashHex = EncodeToString(hash),
                                               !.Mime = mime, !.Data = data,
                                               !.DataBase64 = Base64Encode(data),
                                               !.via = "resource"])
                       /\ UNCHANGED inFiles
             [] case = "resource" /\ Head(link.resCh) = "complete" /\ att ->
                  IF io = "mkdir failed" THEN failed("mkdir")
                  ELSE IF io = "source failed" THEN failed("open attachment resource")
                  ELSE IF io = "open failed" THEN failed("create attachment cache")
                  ELSE IF io # "ok"
                  THEN /\ inFiles' = stored([old EXCEPT !.bin = bin])
                       /\ FxFail(fx, "write attachment cache")
                  ELSE /\ inFiles' = stored([bin |-> bin,
                                             mime |-> IF mime = <<>> THEN old.mime
                                                      ELSE WriteText(old.mime, mime, mo),
                                             name |-> IF name = <<>> THEN old.name
                                                      ELSE WriteText(old.name, name, no)])
                       /\ FxReturn([out EXCEPT !.HashHex = hashHex, !.Path = path,
                                               !.Data = bin.data, !.Mime = mime,
                                               !.Name = name, !.Size = Len(bin.data),
                                               !.via = "resource"])
             [] case = "failed" -> failed("request failed")
             [] case = "deadline" -> failed("request timeout")
        /\ UNCHANGED hasPath
        /\ UNCHANGED <<engineVars, ctlVars, destVars, cfgVars, outFiles, lastStore, identityCache, sendVars,
                       contactVars, unixNow, avatarVars, fetchVars>>

\* the transport runs a callback of the link.  The two link callbacks (part_000:189-201)
\* close their channel unless it is closed, the resource callback (part_000:235-240)
\* sends unless the buffer is full, and the two request callbacks (part_000:244-245)
\* send: with the buffer full the transport's thread waits in the send.
TransportCallback(cb) ==
    /\ link.open
    /\ cbBlocked = ""
    /\ CASE cb = "established" ->
              /\ ~link.established
              /\ link' = [link EXCEPT !.established = TRUE]
              /\ UNCHANGED cbBlocked
         [] cb = "closed" ->
              /\ ~link.closed
              /\ link' = [link EXCEPT !.closed = TRUE]
              /\ UNCHANGED cbBlocked
         [] cb = "resource" ->
              /\ link.requested /\ link.peer.res # "none"
              /\ link.resCh = <<>>
              /\ link' = [link EXCEPT !.resCh = <<link.peer.res>>]
              /\ UNCHANGED cbBlocked
         [] cb = "response" ->
              /\ link.requested /\ link.peer.map # "none"
              /\ IF link.respCh = <<>>
                 THEN link' = [link EXCEPT !.respCh = <<link.peer.map>>]
                      /\ UNCHANGED cbBlocked
                 ELSE cbBlocked' = "response" /\ UNCHANGED link
         [] cb = "failed" ->
              /\ link.requested /\ link.peer.fails
              /\ IF link.failCh = <<>>
                 THEN link' = [link EXCEPT !.failCh = <<"failed">>]
                      /\ UNCHANGED cbBlocked
                 ELSE cbBlocked' = "failed" /\ UNCHANGED link
    /\ UNCHANGED <<inFiles, fx, fxDone, hasPath>>
    /\ UNCHANGED <<engineVars, ctlVars, destVars, cfgVars, outFiles, lastStore, identityCache, sendVars,
                   contactVars, unixNow, avatarVars, fetchVars>>

\* the transport learns a path to the peer
PathLearned ==
    /\ ~hasPath
    /\ hasPath' = TRUE
    /\ UNCHANGED <<inFiles, fx, fxDone, link, cbBlocked>>
    /\ UNCHANGED <<engineVars, ctlVars, destVars, cfgVars, outFiles, lastStore, identityCache, sendVars,
                   contactVars, unixNow, avatarVars, fetchVars>>

\* ClockStep seconds pass for the deadlines of the running call
FxTick ==
    /\ fx.pc \in {"idwait", "pathwait", "estab", "loop"}
    /\ fx' = [fx EXCEPT !.idLeft = Nearer(@), !.pathLeft = Nearer(@),
                        !.linkLeft = Nearer(@)]
    /\ fx' # fx
    /\ UNCHANGED <<inFiles, fxDone, link, cbBlocked, hasPath>>
    /\ UNCHANGED <<engineVars, ctlVars, destVars, cfgVars, outFiles, lastStore, identityCache, sendVars,
                   contactVars, unixNow, avatarVars, fetchVars>>

(***************************************************************************)
(* The specifications of the avatar and of the attachment store.           *)
(***************************************************************************)
\* the avatar with a peer that fetches it; the disk takes every write
NextAvatarFetch ==
    \/ StartLoad
    \/ SetAvatarImage(<<>>, ImgA)
    \/ SetAvatarField
    \/ SaveAvatarBin("ok")
    \/ SaveAvatarMime("ok")
    \/ ClearAvatar
    \/ ClearAvatarField
    \/ RemoveAvatarFiles(TRUE, TRUE)
    \/ \E k \in KnownHexInputs : FetchAvatarStart(k)
    \/ \E linkFound, resourceOk \in BOOLEAN : AvatarRequestHandler(linkFound, resourceOk)
    \/ FetchOnResponse
    \/ \E complete \in BOOLEAN : FetchOnResource(complete)
    \/ \E e \in {"avatar request failed", "avatar request timeout"} : FetchFails(e)

\* Start finds no avatar, an empty avatar.bin, or an image
InitAvatarFetch ==
    /\ InitAvatar
    /\ \A f \in AvatarFileNames : f # "avatar.bin" => ~avatarFiles[f].exists
    /\ avatarFiles["avatar.bin"].data # Junk

SpecAvatarFetch == InitAvatarFetch /\ [][NextAvatarFetch]_vars

\* the images the user sets one after the other
AvatarVersions == {ImgA, ImgB}

\* the user changes and clears the avatar while peers ask for it
NextAvatarRace ==
    \/ UnixTick
    \/ StartLoad
    \/ \E d \in AvatarVersions : SetAvatarImage(<<>>, d)
    \/ SetAvatarField
    \/ SaveAvatarBin("ok")
    \/ SaveAvatarMime("ok")
    \/ ClearAvatar
    \/ ClearAvatarField
    \/ RemoveAvatarFiles(TRUE, TRUE)
    \/ FetchAvatarStart(<<>>)
    \/ \E linkFound, resourceOk \in BOOLEAN : AvatarRequestHandler(linkFound, resourceOk)
    \/ FetchOnResponse
    \/ \E complete \in BOOLEAN : FetchOnResource(complete)
    \/ \E e \in {"avatar request failed", "avatar request timeout"} : FetchFails(e)

\* Start finds no avatar in opts.Dir
InitAvatarNoFiles ==
    /\ InitAvatar
    /\ \A f \in AvatarFileNames : ~avatarFiles[f].exists

SpecAvatarRace == InitAvatarNoFiles /\ [][NextAvatarRace]_vars

NextAttach ==
    \/ UnixTick
    \/ \E d \in AttachDataInputs, m \in AttachMetaInputs, mkdirOk \in BOOLEAN,
          bo \in WriteOutcomes, mo, no \in {"ok", "open failed"} :
          StoreOutgoingAttachment(d, m.mime, m.name, mkdirOk, bo, mo, no)

SpecAttach == InitNode /\ [][NextAttach]_vars

\* the peer and its attachment as a caller may name them
AttachCallInputs ==
    { <<EncodeToString(PeerHash), AttachHashHex[<<1, 2, 3>>]>>,
      <<<<" ">> \o ToUpper(EncodeToString(PeerHash)),
        <<" ">> \o ToUpper(AttachHashHex[<<1, 2, 3>>]) \o <<"\n">>>>,
      <<EncodeToString(PeerHash), <<"z", "z">>>>,
      <<<<>>, AttachHashHex[<<1, 2, 3>>]>> }

\* one thread that fetches avatars and attachments from a peer, the transport's thread,
\* the peer's announce and the clock
NextFetch ==
    \/ AnnounceObserved(PeerHash, NameOnlyAppData)
    \/ PathLearned
    \/ FxTick
    \/ \E t \in {-1, 0, AvatarDefaultTimeout} :
          FxCall("avatar", EncodeToString(PeerHash), <<>>, t)
    \/ \E a \in AttachCallInputs, t \in {-1, 0, AttachDefaultTimeout} :
          FxCall("attachment", a[1], a[2], t)
    \/ IdentityWait
    \/ \E ok \in BOOLEAN : DestTry(ok)
    \/ PathWait
    \/ \E ok \in BOOLEAN : OpenLink(ok)
    \/ \E c \in {"established", "closed", "deadline"}, sent \in BOOLEAN,
          p \in PeerInputs : Establish(c, sent, p)
    \/ \E c \in {"response", "resource", "failed", "deadline"},
          io \in {"ok", "mkdir failed", "source failed", "open failed", "cut short"},
          mo, no \in {"ok", "open failed"} : FetchLoop(c, io, mo, no)
    \/ \E cb \in {"established", "closed", "response", "failed", "resource"} :
          TransportCallback(cb)

SpecFetch == InitNode /\ [][NextFetch]_vars

\* one thread that asks for the contact's info and fetches from it, one call at a time,
\* with timeouts of zero and less; the peer answers with a resource or not at all
NextTimeouts ==
    \/ AnnounceObserved(PeerHash, NameOnlyAppData)
    \/ PathLearned
    \/ FxTick
    \/ /\ fx.pc = "idle"
       /\ \E t \in {-1, 0, 1} : ContactInfoHex(EncodeToString(PeerHash), t)
    \/ ContactPoll
    \/ ContactSleep(1)
    \/ /\ contactPc = "idle"
       /\ \/ \E t \in {-1, 0, AvatarDefaultTimeout} :
               FxCall("avatar", EncodeToString(PeerHash), <<>>, t)
          \/ \E t \in {-1, 0, AttachDefaultTimeout} :
               FxCall("attachment", EncodeToString(PeerHash),
                      AttachHashHex[<<1, 2, 3>>], t)
    \/ IdentityWait
    \/ DestTry(TRUE)
    \/ PathWait
    \/ OpenLink(TRUE)
    \/ \E c \in {"established", "deadline"},
          p \in {[map |-> "ok", res |-> "complete", fails |-> FALSE], NoLink.peer} :
          Establish(c, TRUE, p)
    \/ \E c \in {"response", "resource", "deadline"} : FetchLoop(c, "ok", "ok", "ok")
    \/ \E cb \in {"established", "response", "resource"} : TransportCallback(cb)

SpecTimeouts == InitNode /\ [][NextTimeouts]_vars

\* a fetch on a node that may be closed at any moment; the peer may be silent, and its
\* link may never come up
NextFetchClose ==
    \/ AnnounceObserved(PeerHash, NameOnlyAppData)
    \/ PathLearned
    \/ FxTick
    \/ Close
    \/ \E t \in {0, AvatarDefaultTimeout - 1} :
          FxCall("avatar", EncodeToString(PeerHash), <<>>, t)
    \/ \E t \in {0, PathWaitCap - 1} :
          FxCall("attachment", EncodeToString(PeerHash), AttachHashHex[<<1, 2, 3>>], t)
    \/ IdentityWait
    \/ \E ok \in BOOLEAN : DestTry(ok)
    \/ PathWait
    \/ \E ok \in BOOLEAN : OpenLink(ok)
    \/ \E c \in {"established", "closed", "deadline"},
          p \in {[map |-> "ok", res |-> "complete", fails |-> FALSE], NoLink.peer} :
          Establish(c, TRUE, p)
    \/ \E c \in {"response", "resource", "deadline"} : FetchLoop(c, "ok", "ok", "ok")
    \/ \E cb \in {"established", "closed", "response", "resource"} :
          TransportCallback(cb)

\* the scheduler's guarantee: time passes and the calling goroutine takes the step it
\* can take; a timer that has fired is a ready case of its select at every visit, so it
\* is taken at some visit.  The transport, the peer and the caller of Close owe nothing.
SpecFetchClose ==
    /\ InitNode
    /\ [][NextFetchClose]_vars
    /\ WF_vars(FxTick)
    /\ WF_vars(IdentityWait)
    /\ WF_vars(\E ok \in BOOLEAN : DestTry(ok))
    /\ WF_vars(PathWait)
    /\ WF_vars(\E ok \in BOOLEAN : OpenLink(ok))
    /\ WF_vars(Establish("deadline", TRUE, NoLink.peer))
    /\ WF_vars(FetchLoop("deadline", "ok", "ok", "ok"))

(***************************************************************************)
(* The avatar claims.                                                      *)
(***************************************************************************)
\* the handler has answered, with no avatar call under way, a request whose known
\* fingerprint is the current one
AnsweredKnownCurrent(reply) ==
    /\ reply.sent
    /\ reply.atRest
    /\ Len(reply.known) > 0
    /\ reply.known = reply.current

\* C5: a request whose known fingerprint equals the responder's current fingerprint is
\* answered ok with unchanged=true and no resource is started, and the fetcher returns
\* Unchanged=true with the peer's hash and mime and no avatar bytes.
C5_KnownFingerprintUnchanged ==
    /\ AnsweredKnownCurrent(avResponse) =>
          /\ avResponse.ok
          /\ avResponse.unchanged
          /\ ~avResponse.resource
          /\ ~avResource.sent
    /\ (fetchDone.done /\ AnsweredKnownCurrent(fetchDone.reply)) =>
          /\ fetchDone.Unchanged
          /\ fetchDone.HashHex = EncodeToString(fetchDone.reply.current)
          /\ fetchDone.Mime = fetchDone.reply.t
          /\ fetchDone.DataBase64 = <<>>
          /\ fetchDone.err = ""

\* C7: between avatar calls, after any load from disk, SetAvatar (successful or failing)
\* and ClearAvatar, non-empty avatar bytes have as fingerprint the first 16 bytes of the
\* SHA-256 of exactly those bytes.
C7_FingerprintOfBytes ==
    (avPc = "idle" /\ avatarPNG # <<>>) =>
        avatarHash = SubSeq(Sum256(avatarPNG), 1, FingerprintLen)

\* a SetAvatarImage that failed at the save has left its bytes in the fields
C7_Witness ==
    /\ avPc = "idle"
    /\ avReturn = [op |-> "set", err |-> "write avatar"]
    /\ avatarPNG = ImgB
    /\ avatarHash = SubSeq(Sum256(ImgB), 1, FingerprintLen)

\* C8: between avatar calls, after Start's load of any files and any SetAvatar and
\* ClearAvatar, empty avatar bytes come with an empty fingerprint, an empty mime and a
\* zero mtime, and the announce app data carries no avatar map.
C8_EmptyAvatarAllZero ==
    (avPc = "idle" /\ avatarPNG = <<>>) =>
        /\ avatarHash = <<>>
        /\ avatarMime = <<>>
        /\ avatarMTime = 0
        /\ announceAppData.items[3].t # "map"

(***************************************************************************)
(* The attachment store claims.                                            *)
(***************************************************************************)
\* C9: after any Stores, every <hash>.bin of attachments/out holds bytes whose SHA-256
\* in hex is <hash>, and the load by the hash of bytes that were stored returns exactly
\* those bytes.
C9_StoredBytesMatchHash ==
    /\ \A h \in OutStems :
          outFiles[h].bin.exists => EncodeToString(Sum256(outFiles[h].bin.data)) = h
    /\ \A d \in lastStore.stored :
          /\ loadOutgoingAttachmentByHashHex(AttachHashHex[d]).err = ""
          /\ loadOutgoingAttachmentByHashHex(AttachHashHex[d]).bytes = d

\* C10: a Store of bytes that were stored before leaves the one <hash>.bin of these
\* bytes in place and does not write it again.
C10_SecondStoreKeepsBin ==
    (lastStore.called /\ lastStore.again) =>
        /\ ~lastStore.wroteBin
        /\ lastStore.binKept
        /\ lastStore.binsAdded = 0
        /\ outFiles[AttachHashHex[lastStore.data]].bin.exists

\* the second Store has returned well, a second after the file was written
C10_Witness ==
    /\ lastStore.called
    /\ lastStore.again
    /\ lastStore.err = ""
    /\ lastStore.info.Updated < unixNow
    /\ outFiles[AttachHashHex[lastStore.data]].bin =
          FileOf(lastStore.data, lastStore.info.Updated)

(***************************************************************************)
(* Claims about the fetch from a contact.                                  *)
(***************************************************************************)
\* C12: a call of the attachment fetch that finds a non-empty
\* attachments/in/<remote>/<hash>.bin returns in its first step with that path, having
\* waited for no identity, requested no path, opened no link and sent no request.
C12_CacheHitNoTransport ==
    [][LET c == IF fx'.pc # "idle" THEN fx' ELSE fxDone'.call
           bin == InFilesAt(c.remote, c.hashHex).bin
       IN  (/\ fx.pc = "idle"
            /\ fx' # fx \/ fxDone' # fxDone
            /\ c.kind = "attachment"
            /\ bin.exists /\ Len(bin.data) > 0)
           => /\ fx' = NoFx
              /\ fxDone'.err = ""
              /\ fxDone'.Path = <<"in", c.remote, c.hashHex>>
              /\ fxDone'.Data = bin.data
              /\ c.idWaits = 0 /\ c.pathReqs = 0 /\ c.links = 0 /\ c.requests = 0
              /\ link' = link /\ inFiles' = inFiles]_vars

\* a fetch has returned the cached file of an attachment that an earlier fetch stored
C12_Witness ==
    /\ fxDone.done
    /\ fxDone.via = "cache"
    /\ fxDone.Data = <<1, 2, 3>>

\* C16: the transport's thread never waits inside a callback that a fetch installed,
\* whether the fetch still runs or has returned and however often the callback runs.
C16_CallbacksNeverBlock == cbBlocked = ""

\* the fetch has returned the resource, and the transport waits for ever in the response
\* callback that it ran a second time
C16_Witness ==
    /\ fx.pc = "idle"
    /\ fxDone.via = "resource"
    /\ cbBlocked = "response"

\* C17: when the peer answers with a map with ok = true and a resource that concludes,
\* a fetch that returns on what the peer sent returns the bytes of the resource, whether
\* the map was received before the resource or not at all; no error of the fetch comes
\* from the order of the two.
C17_ResourceBytesEitherOrder ==
    (/\ fxDone.done
     /\ fxDone.peer = [map |-> "ok", res |-> "complete", fails |-> FALSE])
    => /\ ~fxDone.NotPresent /\ ~fxDone.Unchanged
       /\ fxDone.err \notin {"unexpected response type", "resource failed",
                              "request failed"}
       /\ fxDone.err = "" => /\ fxDone.via = "resource"
                             /\ fxDone.Data = <<1, 2, 3>>
                             /\ fxDone.Mime = MimePNG

\* the resource was concluded first: the fetch has returned its bytes, and the map is
\* still in its channel
C17_Witness ==
    /\ fxDone.done
    /\ fxDone.peer = [map |-> "ok", res |-> "complete", fails |-> FALSE]
    /\ fxDone.via = "resource"
    /\ ~fxDone.call.gotMap
    /\ link.respCh = <<"ok">>

(***************************************************************************)
(* Claims about the timeouts of the calls to a contact.                    *)
(***************************************************************************)
\* a fetch called with a timeout of zero or less takes the step of the same call with
\* the default timeout of its kind: 5 s for the avatar, 10 s for the attachment
FetchRewritesTimeout ==
    /\ \A t \in {-1, 0} :
          FxCall("avatar", EncodeToString(PeerHash), <<>>, t)
              => FxCall("avatar", EncodeToString(PeerHash), <<>>, AvatarDefaultTimeout)
    /\ \A t \in {-1, 0} :
          FxCall("attachment", EncodeToString(PeerHash), AttachHashHex[<<1, 2, 3>>], t)
              => FxCall("attachment", EncodeToString(PeerHash),
                        AttachHashHex[<<1, 2, 3>>], AttachDefaultTimeout)

\* C20 as stated: every public fetch function, the contact info among them, treats a
\* timeout of zero or less as its default timeout: the fetches take the step of the call
\* with 5 s and 10 s, and the contact info asks for a path and polls, as it does with any
\* positive timeout
C20_ZeroTimeoutIsDefault ==
    [][/\ FetchRewritesTimeout
       /\ \A t \in {-1, 0} :
             ContactInfoHex(EncodeToString(PeerHash), t)
                 => /\ contactPc' = "poll"
                    /\ contactCall'.pathRequests = 1]_vars

\* C20 amended: the avatar and the attachment fetch treat a timeout of zero or less as
\* 5 s and 10 s; the contact info does not: with a timeout of zero or less it recalls
\* the identity once from the local cache, asks for no path and returns at once
C20_FetchesRewriteInfoRecallsOnce ==
    [][/\ FetchRewritesTimeout
       /\ \A t \in {-1, 0} :
             ContactInfoHex(EncodeToString(PeerHash), t)
                 => /\ contactPc' = "idle"
                    /\ contactDone'.call.timeout = t
                    /\ contactDone'.call.recalls = 1
                    /\ contactDone'.call.pathRequests = 0]_vars

\* a contact info called with no timeout has returned after one recall, and an
\* attachment fetch runs on the 10 s of the default
C20_Witness ==
    /\ contactDone.call.called
    /\ contactDone.call.timeout = 0
    /\ contactDone.call.recalls = 1
    /\ contactDone.call.pathRequests = 0
    /\ fx.pc # "idle"
    /\ fx.kind = "attachment"
    /\ fx.timeout = AttachDefaultTimeout

(***************************************************************************)
(* Claims about the destinations.                                          *)
(***************************************************************************)
\* C15: after a successful Start and any number of successful Restarts, the profile
\* destination and the node's current delivery destination both have the /avatar and the
\* /attachment request handlers registered
C15_HandlersOnBothDests ==
    /\ profileDestIn # 0
    /\ destHandlers[profileDestIn] = RequestPaths
    /\ deliveryDestIn # 0 => destHandlers[deliveryDestIn] = RequestPaths

\* a successful Restart has returned and its announce was emitted from the new delivery
\* destination, which has no handler
C15_Witness ==
    /\ destsMade > 2
    /\ deliveryDestIn = destsMade
    /\ destHandlers[deliveryDestIn] = {}
    /\ destHandlers[profileDestIn] = RequestPaths
    /\ \E p \in Callers : pc[p] = "emit" /\ reason[p] = "restart"

(***************************************************************************)
(* Claims about the avatar on disk.                                        *)
(***************************************************************************)
\* C18: SetAvatar is atomic: when the call that passed its checks returns without error,
\* the fields of the node and avatar.bin with avatar.mime hold the new avatar; when it
\* returns an error, the fields and avatar.bin hold one and the same avatar
C18_SetAvatarAtomic ==
    [][(avPc \in {"save_bin", "save_mime"} /\ avPc' = "idle") =>
          LET bin == avatarFiles'["avatar.bin"]
              mime == avatarFiles'["avatar.mime"]
          IN  IF avReturn'.err = ""
                THEN /\ avatarPNG' = avArgs.data
                     /\ bin.exists /\ bin.data = avArgs.data
                     /\ mime.exists /\ mime.data = avArgs.mime
                ELSE \/ bin.exists /\ bin.data = avatarPNG'
                     \/ ~bin.exists /\ avatarPNG' = <<>>]_vars

\* a SetAvatar returned an error: the fields hold the new image, avatar.bin the old one
C18_Witness ==
    /\ avPc = "idle"
    /\ avReturn = [op |-> "set", err |-> "write avatar"]
    /\ avatarPNG = ImgB
    /\ avatarFiles["avatar.bin"].exists
    /\ avatarFiles["avatar.bin"].data = ImgA

(***************************************************************************)
(* Claims about the transport config.                                      *)
(***************************************************************************)
\* a step that ensures the config again, with nothing else having touched the file since
\* the same step ensured it, leaves the file as it is
EnsureTwiceIsOnce ==
    /\ (cfgLast = "prepare" /\ prepareRNSConfigDir(FALSE, FALSE)) => cfgFile' = cfgFile
    /\ (cfgLast = "prepare, reset" /\ prepareRNSConfigDir(FALSE, TRUE)) => cfgFile' = cfgFile
    /\ (cfgLast = "ensure" /\ EnsureRNSConfig) => cfgFile' = cfgFile

\* the names of a devices list
DeviceNames(v) == {TrimSpace(Split(v, ",")[i]) : i \in 1..Len(Split(v, ","))} \ {<<>>}
KeptDeviceNames(v) == {n \in DeviceNames(v) : ~HasPrefix(n, <<"u", "t", "u", "n">>) /\ n # Awdl0}

C21_RestartRebuilds ==
    [][/\ identity' = identity
       /\ (RouterDelivers /\ router > 2 /\ onInbound) => lastInbound' = "handler"
       /\ \A p \in Callers :
             /\ (pc[p] = "restart_build" /\ pc'[p] = "restart") =>
                   /\ router' \notin 0..destsMade
                   /\ deliveryDestIn' \notin 0..destsMade
                   /\ router' \in deliveryCallback'
             /\ (pc[p] = "restart" /\ pc'[p] # "restart") =>
                   IF announceInFlight = 0
                     THEN /\ announceInFlight' = 1
                          /\ pc'[p] = "start"
                          /\ reason'[p] = "restart"
                     ELSE /\ pc'[p] = "storeq"
                          /\ reason' = reason
             /\ (pc[p] = "storeq" /\ pc'[p] # "storeq") =>
                   announceQueued' = 1 /\ pc'[p] = "idle"]_vars

\* after two restarts the second router has delivered to the handler; the first
\* restart's attempt is in flight and the second's request is queued
C21_Witness ==
    /\ router = 4
    /\ deliveryDestIn = 4
    /\ lastInbound = "handler"
    /\ announceQueued = 1
    /\ \E p \in Callers : reason[p] = "restart" /\ pc[p] = "poll"

\* C28: whatever Restart does meanwhile, an attempt that emits announces on a delivery
\* destination that is not nil
C28_EmitsOnDestination ==
    [][\A p \in Callers : (pc[p] = "emit" /\ pc'[p] = "clear") => deliveryDestIn # 0]_vars

\* an attempt has emitted while Restart had dropped the delivery destination
C28_Witness ==
    /\ deliveryDestIn = 0
    /\ \E p, q \in Callers : pc[p] = "clear" /\ pc[q] = "restart_build"

(***************************************************************************)
(* Claims about the errors of the send path.                               *)
(***************************************************************************)
\* C22: a send to a hash that is no hex, is not 16 bytes long, or is another node's with
\* no identity to recall returns an error and hands nothing to the router, neither to
\* its outbound queue nor to its local delivery
C22_BadHashNothingSent ==
    [][LET dec == DecodeDestHex(lastSend'.destHex)
           bad == \/ ~dec.ok
                  \/ Len(dec.bytes) # 16
                  \/ dec.bytes # SelfHash /\ ~IdentityRecall(dec.bytes).known
       IN  (lastSend'.called /\ sendVars' # sendVars /\ bad) =>
              /\ lastSend'.err # ""
              /\ ~lastSend'.outbound
              /\ ~lastSend'.localDelivery
              /\ routerOutbound' = routerOutbound
              /\ routerDelivered' = routerDelivered]_vars

\* after a message went out to the peer, a send to a hash that nobody announced failed
C22_Witness ==
    /\ lastSend.called
    /\ lastSend.err = "unknown destination identity"
    /\ Len(routerOutbound) = 1
    /\ routerDelivered = <<>>

(***************************************************************************)
(* Claims about the completion of an attempt.                              *)
(***************************************************************************)
\* the steps of a completion up to the follow-up call, which are the same in both
\* readings of C23
CompletionSteps(p) ==
    /\ (pc[p] = "emit" /\ pc'[p] # "emit") =>
          pc'[p] = "clear" /\ announceInFlight' = announceInFlight
    /\ (pc[p] = "clear" /\ pc'[p] # "clear") =>
          /\ announceInFlight' = 0
          /\ announceQueued' = announceQueued
          /\ pc'[p] = "swapq"
    /\ (pc[p] = "swapq" /\ pc'[p] # "swapq") =>
          /\ announceQueued' = 0
          /\ announceInFlight' = announceInFlight
          /\ pc'[p] = IF announceQueued = 1 THEN "fcas" ELSE "idle"
          /\ InFlightAttempts' = InFlightAttempts

C24_NeverAtRestWithQueued ==
    ~(/\ announceQueued = 1
      /\ announceInFlight = 0
      /\ \A p \in Callers : pc[p] = "idle")

\* the attempt has completed and found nothing queued, while the call that lost the CAS
\* to it has not stored queued yet
C24_Witness ==
    \E p, q \in Callers :
        /\ pc[p] = "idle"
        /\ pc[q] = "storeq"
        /\ announceInFlight = 0
        /\ announceQueued = 0

\* C25: an attempt that finds itself not ready after its 20 s hard deadline emits
\* nothing, clears in_flight and leaves queued as it was; the next call then finds
\* in_flight clear and starts a fresh attempt.
C25_DeadlineAbortKeepsQueued ==
    [][\A p \in Callers :
          /\ (pc[p] = "deadline_chk" /\ pc'[p] # "deadline_chk") =>
                IF deadline[p] = PastDue
                  THEN /\ pc'[p] = "idle"
                       /\ announceInFlight' = 0
                       /\ announceQueued' = announceQueued
                       /\ InFlightAttempts' = {}
                  ELSE /\ pc'[p] = "poll"
                       /\ announceInFlight' = 1
                       /\ announceQueued' = announceQueued
          /\ (pc[p] = "idle" /\ pc'[p] # "idle" /\ announceInFlight = 0) =>
                /\ pc'[p] = "start"
                /\ announceInFlight' = 1
                /\ announceQueued' = announceQueued]_vars

\* an attempt is at its deadline check with the deadline behind it, the node open, no
\* interface online and a request deferred
C25_Witness ==
    \E p \in Callers :
        /\ pc[p] = "deadline_chk"
        /\ deadline[p] = PastDue
        /\ announceQueued = 1
        /\ ~announceStopClosed
        /\ \A n \in Ifaces : ~ifaceOnline[n]

(***************************************************************************)
(* Claims about the gating of an attempt.                                  *)
(***************************************************************************)
\* some enabled interface is TCP-typed and no enabled TCP interface is online
TCPAwaited ==
    /\ \E n \in EnabledIfaces : IsTCP(n)
    /\ \A n \in EnabledIfaces : IsTCP(n) => ~ifaceOnline[n]

\* C26: while some enabled interface is TCP-typed and no enabled TCP interface is
\* online, an attempt does not go on to emit before 6 s have passed since it started,
\* even with another enabled interface online, whatever the interfaces do during the
\* 1 s stabilisation sleep.
C26_PrefersTCPForSixSeconds ==
    [][\A p \in Callers :
          (pc[p] # "emit" /\ pc'[p] = "emit") =>
              ~(TCPAwaited /\ preferDeadline[p] > 0)]_vars

\* 1 s into the stabilisation sleep of an attempt that found the TCP interface online,
\* that interface is offline again and the other one online
C26_Witness ==
    \E p \in Callers :
        /\ pc[p] = "stab"
        /\ preferDeadline[p] = AnnouncePreferWait - ClockStep
        /\ TCPAwaited
        /\ \E n \in EnabledIfaces : ifaceOnline[n]

\* C27: every attempt that was started ends with its store of in_flight = 0 (after the
\* emission, at the hard deadline or on the closed stop channel), whatever the
\* interfaces do while it polls: in_flight never stays set forever.
C27_AttemptEnds ==
    /\ \A p \in Callers : (pc[p] \in InFlightPCs) ~> (pc[p] \notin InFlightPCs)
    /\ (announceInFlight = 1) ~> (announceInFlight = 0)

\* an attempt has polled for the whole 20 s with the interfaces going on and off, and
\* is at a poll with one of them online
C27_Witness ==
    \E p \in Callers :
        /\ pc[p] = "poll"
        /\ deadline[p] = PastDue
        /\ announceInFlight = 1
        /\ hasAnyOnlineInterface
        /\ ~announceStopClosed

(***************************************************************************)
(* Claims about the reset procedure.                                       *)
(***************************************************************************)
ResetPCs == {"r_lock", "r_halt", "r_sleep", "r_resume", "r_unlock"}

\* C29: an attempt with reason "resume" runs the reset procedure to its end before its
\* first readiness poll; an attempt with any other reason polls at once and is never
\* inside the reset procedure.
C29_ResumeResetsFirst ==
    /\ [](\A p \in Callers : pc[p] \in ResetPCs => reason[p] = "resume")
    /\ [][\A p \in Callers :
            /\ (pc[p] = "start" /\ pc'[p] # "start") =>
                  pc'[p] = IF reason[p] = "resume" THEN "r_lock" ELSE "poll"
            /\ (pc[p] \notin {"poll", "deadline_chk"} /\ pc'[p] = "poll") =>
                  IF reason[p] = "resume"
                    THEN /\ pc[p] = "r_unlock"
                         /\ networkResetMu = p
                         /\ networkResetMu' = "free"
                    ELSE pc[p] = "start"
            /\ (pc[p] \in ResetPCs /\ pc'[p] \notin ResetPCs) =>
                  pc[p] = "r_unlock" /\ pc'[p] = "poll"]_vars

\* a "resume" attempt is at its first poll: its reset has halted the TCP interface and
\* has released the mutex
C29_Witness ==
    \E p \in Callers :
        /\ pc[p] = "poll"
        /\ reason[p] = "resume"
        /\ deadline[p] = AnnounceDeadline
        /\ networkResetMu = "free"
        /\ ifaceOnline[IfaceNames[1]]
        /\ ~ifaceOnline[IfaceNames[2]]

\* C30: one run of the reset procedure halts every interface enabled at its start, in
\* list order, then sleeps, then resumes the same interfaces in the same order; no
\* resume comes before the last halt, and a halt or resume that fails (it changes
\* nothing) is followed by the halt or resume of the next interface all the same.
C30_HaltAllThenResumeAll ==
    [][\A t \in Callers :
          LET names == resetNames[t]
              i == resetIdx[t]
          IN  /\ (pc[t] = "r_lock" /\ pc'[t] # "r_lock") =>
                    IF enabledInterfaceConfigs = <<>>
                      THEN pc'[t] = "r_unlock" /\ ifaceOnline' = ifaceOnline
                      ELSE /\ pc'[t] = "r_halt"
                           /\ resetNames'[t] = enabledInterfaceConfigs
                           /\ resetIdx'[t] = 1
              /\ (pc[t] = "r_halt" /\ <<pc'[t], resetIdx'[t]>> # <<pc[t], i>>) =>
                    /\ resetNames'[t] = names
                    /\ \A n \in Ifaces \ {names[i]} : ifaceOnline'[n] = ifaceOnline[n]
                    /\ ifaceOnline'[names[i]] \in {FALSE, ifaceOnline[names[i]]}
                    /\ IF i < Len(names)
                         THEN pc'[t] = "r_halt" /\ resetIdx'[t] = i + 1
                         ELSE pc'[t] = "r_sleep" /\ resetIdx'[t] = 1
              /\ (pc[t] = "r_sleep" /\ pc'[t] # "r_sleep") =>
                    /\ pc'[t] = "r_resume"
                    /\ resetNames'[t] = names
                    /\ resetIdx'[t] = 1
              /\ (pc[t] = "r_resume" /\ <<pc'[t], resetIdx'[t]>> # <<pc[t], i>>) =>
                    /\ resetNames'[t] = names
                    /\ IF i < Len(names)
                         THEN pc'[t] = "r_resume" /\ resetIdx'[t] = i + 1
                         ELSE pc'[t] = "r_unlock"
              /\ (pc[t] # "r_resume" /\ pc'[t] = "r_resume") => pc[t] = "r_sleep"
              /\ (pc[t] # "r_sleep" /\ pc'[t] = "r_sleep") =>
                    pc[t] = "r_halt" /\ i = Len(names)]_vars

\* a reset of two interfaces is at its second resume; the halt of the first one failed
\* or the interface is back already, the second one is down
C30_Witness ==
    \E t \in Callers :
        /\ pc[t] = "r_resume"
        /\ Len(resetNames[t]) = 2
        /\ resetIdx[t] = 2
        /\ ifaceOnline[resetNames[t][1]]
        /\ ~ifaceOnline[resetNames[t][2]]
        /\ ~ifaceEnabled[resetNames[t][2]]

\* C31: once SetInterfaceEnabled(name, false) has returned without an error, no reset
\* procedure resumes that interface until it is enabled again, also when the call came
\* between the halts and the resumes of a running reset procedure.
C31_DisabledStaysHalted ==
    [][\A t \in Threads :
          (pc[t] = "r_resume" /\ <<pc'[t], resetIdx'[t]>> # <<pc[t], resetIdx[t]>>) =>
              setEnabledDone[resetNames[t][resetIdx[t]]] # "disabled"]_vars

\* a reset procedure sleeps between its halts and its resumes, and an interface of its
\* list has been disabled since it began
C31_Witness ==
    \E t \in Threads :
        /\ pc[t] = "r_sleep"
        /\ \E i \in 1..Len(resetNames[t]) :
              /\ setEnabledDone[resetNames[t][i]] = "disabled"
              /\ ~ifaceEnabled[resetNames[t][i]]
              /\ ~ifaceOnline[resetNames[t][i]]

(***************************************************************************)
(* Claims about the watchdog's offline timestamps.                         *)
(***************************************************************************)
\* a tick of the watchdog that looks at the interfaces
WatchdogLooks == pc[WD] = "wd_wait" /\ pc'[WD] = "wd_decide"

\* C32: a watchdog tick clears the offline timestamp of an enabled interface it finds
\* online; for one it finds offline it keeps the timestamp, or sets it to now if there
\* is none; so the timestamp of an interface that stays enabled and offline does not
\* change (its age grows with the clock only).
C32_OfflineStampKept ==
    [][/\ WatchdogLooks =>
            \A n \in EnabledIfaces :
                ifaceOfflineAt'[n] = IF ifaceOnline[n] THEN NoTime
                                     ELSE IF ifaceOfflineAt[n] = NoTime THEN 0
                                     ELSE ifaceOfflineAt[n]
       /\ \A n \in Ifaces :
            (/\ ifaceEnabled[n] /\ ~ifaceOnline[n] /\ ifaceOfflineAt[n] # NoTime
             /\ ifaceEnabled'[n] /\ ~ifaceOnline'[n]) =>
                ifaceOfflineAt'[n] \in {ifaceOfflineAt[n],
                                        Older(ifaceOfflineAt[n], OfflineResetAfter)}]_vars

\* a tick has just found one interface offline for 4 s and the other one online
C32_Witness ==
    /\ pc[WD] = "wd_decide"
    /\ \E n, m \in EnabledIfaces :
          /\ ~ifaceOnline[n] /\ ifaceOfflineAt[n] = 2 * ClockStep
          /\ ifaceOnline[m] /\ ifaceOfflineAt[m] = NoTime

\* C33: the offline duration the watchdog computes for an enabled interface is no
\* longer than the time since a tick first saw the interface offline in its current
\* enabled period: at the first tick after an interface was enabled again, an offline
\* timestamp from before counts for nothing and the duration is 0.
C33_FreshStampAfterEnable ==
    [][WatchdogLooks =>
          \A n \in EnabledIfaces :
              (~ifaceOnline[n] /\ staleStamp[n]) => ifaceOfflineAt'[n] = 0]_vars

\* an interface that was disabled while offline is enabled again and still offline;
\* its timestamp is 6 s old and the watchdog waits for its tick
C33_Witness ==
    /\ pc[WD] = "wd_wait"
    /\ \E n \in EnabledIfaces :
          /\ staleStamp[n]
          /\ ~ifaceOnline[n]
          /\ ifaceOfflineAt[n] = OfflineResetAfter

\* a "resume" attempt sets its hard deadline when its reset procedure returns: as long
\* as the attempt polls, the time since that reset is what has gone of the 20 s
SinceResumeReset(p) == AnnounceDeadline - deadline[p]

\* C34: the watchdog never triggers a reset less than 12 s after a reset procedure that
\* a "resume" announce ran: the 12 s spacing holds between resets of both initiators.
C34_SpacingAfterResumeReset ==
    [][WatchdogTriggers =>
          \A p \in Callers :
              (/\ reason[p] = "resume"
               /\ pc[p] \in {"poll", "stab", "deadline_chk"}
               /\ deadline[p] >= 0) =>
                  SinceResumeReset(p) >= ResetMinSpacing]_vars

\* the watchdog has decided for a reset while the "resume" attempt, back from its own
\* reset this instant, is at its first poll
C34_Witness ==
    /\ pc[WD] = "r_lock"
    /\ lastIfaceReset = 0
    /\ \E p \in Callers :
          /\ reason[p] = "resume"
          /\ pc[p] = "poll"
          /\ deadline[p] = AnnounceDeadline

(***************************************************************************)
(* Claims about announces after Close.                                     *)
(***************************************************************************)
\* C35: an attempt that starts after Close has returned, whatever its reason, emits
\* nothing: the stop channel stays closed, the attempt goes from its start (through
\* the reset, for "resume") to its first poll and ends there with in_flight = 0,
\* leaving queued as it is and making no follow-up call.
C35_NoAnnounceAfterClose ==
    [][announceStopClosed =>
          /\ announceStopClosed'
          /\ \A p \in Callers :
                /\ (pc[p] \in {"start"} \cup ResetPCs) =>
                      pc'[p] \in {"start", "poll"} \cup ResetPCs
                /\ (pc[p] = "poll" /\ pc'[p] # "poll") =>
                      /\ pc'[p] = "idle"
                      /\ announceInFlight' = 0
                      /\ announceQueued' = announceQueued
                      /\ InFlightAttempts' = {}]_vars

\* the node is closed, an interface is online, a request is deferred, and an attempt
\* with its whole 20 s ahead is at its first poll
C35_Witness ==
    /\ announceStopClosed
    /\ announceQueued = 1
    /\ hasAnyOnlineInterface
    /\ \E p \in Callers :
          /\ pc[p] = "poll"
          /\ reason[p] = "resume"
          /\ deadline[p] = AnnounceDeadline
          /\ preferDeadline[p] = AnnouncePreferWait

(***************************************************************************)
(* Claims about the avatar under concurrent use.                           *)
(***************************************************************************)
\* h and s are the fingerprint and the size of one image
OfOneVersion(h, size) ==
    \E d \in AvatarVersions : h = SumPrefix(Sum256(d)) /\ size = Len(d)

\* C36: whenever the announce app data is composed and whenever the /avatar handler
\* answers while SetAvatarImage or ClearAvatar run, what goes out is of one avatar
\* version: the resource's bytes have the fingerprint sent with them, and h and s of
\* the response and of the announce are the fingerprint and the size of one image.
C36_PayloadsOfOneVersion ==
    /\ avResource.sent => avResource.h = SumPrefix(Sum256(avResource.data))
    /\ (avResponse.sent /\ avResponse.ok) => OfOneVersion(avResponse.h, avResponse.s)
    /\ LET avatar == announceAppData.items[3]
       IN  avatar.t = "map" => OfOneVersion(avatar.m["h"].b, avatar.m["s"].n)

\* SetAvatarImage has stored the new bytes and not yet their fingerprint, and a peer's
\* request is on its way
C36_Witness ==
    /\ avPc = "set_hash"
    /\ avatarPNG = ImgB
    /\ avatarHash = SumPrefix(Sum256(ImgA))
    /\ avRequest.sent


\* C37: a fetch tries the lxmf.delivery candidate (1) first and the profile candidate (2)
\* second: the first candidate is entered only from the start of the call, the second
\* only from the first and without the call returning, the first candidate is left
\* either for the second or with a result that is no error, and the call that leaves the
\* second candidate returns what that candidate gave, an error when it failed too.
C37_CandidatesInOrder ==
    [][/\ (fx'.dest = 1 /\ fx.dest # 1) => fx.pc \in {"idle", "idwait"}
       /\ (fx'.dest = 2 /\ fx.dest # 2) =>
              fx.dest = 1 /\ fx'.pc = "dest" /\ fxDone' = fxDone
       /\ (fx.dest = 1 /\ fx'.dest # 1) =>
              \/ fx'.dest = 2
              \/ /\ fx' = NoFx
                 /\ fxDone'.done /\ fxDone'.err = "" /\ fxDone'.call.dest = 1
       /\ (fx.dest = 2 /\ fx'.dest # 2) =>
              /\ fx' = NoFx
              /\ fxDone'.done /\ fxDone'.call.dest = 2
       /\ (fxDone'.done /\ ~fxDone.done /\ fxDone'.err # "") =>
              fxDone'.call.dest \in {0, 2}]_vars

\* the first candidate failed after its link was opened and the second gave the result
C37_Witness ==
    /\ fxDone.done /\ fxDone.err = ""
    /\ fxDone.call.dest = 2 /\ fxDone.call.links = 2
    /\ fxDone.via = "resource"


\* C38: every avatar or attachment fetch returns, also when no callback of its link or
\* of its request is ever delivered and when the node is closed meanwhile: each of its
\* waits is at most one timeout of the call long, it opens at most one link per
\* candidate, and Close leaves the call where it is.
C38_FetchEndsByItsTimers ==
    /\ [](fx.pc # "idle" =>
              /\ fx.timeout > 0
              /\ fx.idLeft <= fx.timeout /\ fx.pathLeft <= fx.timeout
              /\ fx.linkLeft <= fx.timeout
              /\ fx.idWaits <= 1 /\ fx.links <= 2)
    /\ [][announceStopClosed' # announceStopClosed => fx' = fx /\ fxDone' = fxDone]_vars
    /\ (fx.pc # "idle") ~> (fx.pc = "idle" /\ fxDone.done)

\* the node was closed, neither candidate's link came up, and the call has returned the
\* error of its second timer
C38_Witness ==
    /\ announceStopClosed
    /\ fxDone.done /\ fxDone.err = "timeout establishing link"
    /\ fxDone.call.dest = 2 /\ fxDone.call.links = 2
    /\ ~link.established /\ ~link.closed


\* C39: every non-empty <hash>.bin of the incoming attachment cache holds the bytes
\* whose SHA-256 is <hash>; the model keeps the file of one attachment per remote.
C39_CacheHoldsHashedBytes ==
    \A d \in InDirs :
        CacheHit(inFiles[d].bin) =>
            EncodeToString(Sum256(inFiles[d].bin.data)) = AttachHashHex[<<1, 2, 3>>]

\* a later call has been answered from the cache with bytes that are not the attachment
C39_Witness ==
    /\ fxDone.done /\ fxDone.err = "" /\ fxDone.via = "cache"
    /\ fxDone.HashHex = AttachHashHex[<<1, 2, 3>>]
    /\ fxDone.Data # <<1, 2, 3>>


\* C40: the registry has one entry per observed destination hash, stored under its own
\* hash: a recorded announce becomes the entry of its hash and leaves every other entry
\* and every snapshot taken as they are, no entry is ever removed, and a snapshot holds
\* each entry of the registry once, later last-seen times first, and leaves the
\* registry as it is.
C40_RegistryLatestPerHash ==
    [][/\ \A k \in DOMAIN announces' : announces'[k].DestinationHashHex = k
       /\ (DOMAIN announces) \subseteq (DOMAIN announces')
       /\ (announces' # announces \/ annEntry' # annEntry) =>
              /\ DOMAIN announces' = (DOMAIN announces) \cup {annEntry'.DestinationHashHex}
              /\ announces'[annEntry'.DestinationHashHex] = annEntry'
              /\ annEntry'.LastSeen = unixNow
              /\ \A k \in (DOMAIN announces) \ {annEntry'.DestinationHashHex} :
                     announces'[k] = announces[k]
              /\ snapshot' = snapshot
       /\ snapshot' # snapshot =>
              /\ announces' = announces
              /\ Len(snapshot') = Cardinality(DOMAIN announces)
              /\ {snapshot'[i] : i \in 1..Len(snapshot')} =
                     {announces[k] : k \in DOMAIN announces}
              /\ \A i, j \in 1..Len(snapshot') :
                     i < j => snapshot'[i].LastSeen >= snapshot'[j].LastSeen]_vars

\* a snapshot of two entries with different times, whose second entry has since been
\* recorded again with a later time and another name
C40_Witness ==
    /\ Len(snapshot) = 2
    /\ snapshot[1].LastSeen > snapshot[2].LastSeen
    /\ LET k == snapshot[2].DestinationHashHex
       IN  /\ announces[k].LastSeen > snapshot[2].LastSeen
           /\ announces[k].DisplayName # snapshot[2].DisplayName
           /\ annEntry = announces[k]

====
